---- MODULE Spec2Model ----
(***************************************************************************)
(* Query intent resolution and tool dispatch of z2-agents-simple:          *)
(*   backend/mcp_registry.py   MCPRegistry  (entity extraction, scoring)   *)
(*   backend/agents_simple.py  DataAgent    (two-tier dispatch)            *)
(*   backend/z2data_client.py  Z2DataClient (validate-then-fetch client)   *)
(* Query strings are TLA+ strings; Python's str operations (lower, upper,  *)
(* strip, split, "in", re.search) are operators over their characters.     *)
(***************************************************************************)
EXTENDS Integers, Sequences, FiniteSets, TLC

(***************************************************************************)
(* Python values                                                           *)
(***************************************************************************)
\* Python's None (also: a dict key that is absent and read with .get()).
None == "<None>"

\* bool(x) of an optional string: None and "" are falsy.
Truthy(x) == x # None /\ x # ""

\* A variant of Or that is always None.
OrNone(a, b) == None

\* A variant of Or that prefers its second argument.
OrSecond(a, b) == IF Truthy(b) THEN b ELSE a

\* a or b
Or(a, b) == IF Truthy(a) THEN a ELSE b

\* F(e), with e evaluated once: a local variable that holds the value e.
With(e, F(_)) == CHOOSE r \in {F(x) : x \in {e}} : TRUE

(***************************************************************************)
(* Characters and Python string operations                                 *)
(***************************************************************************)
LowerLetters ==
  {"a","b","c","d","e","f","g","h","i","j","k","l","m",
   "n","o","p","q","r","s","t","u","v","w","x","y","z"}

UpperLetters ==
  {"A","B","C","D","E","F","G","H","I","J","K","L","M",
   "N","O","P","Q","R","S","T","U","V","W","X","Y","Z"}

Digits == {"0","1","2","3","4","5","6","7","8","9"}

Letters == LowerLetters \cup UpperLetters

AlNum == Letters \cup Digits

\* \w of Python's re
WordChars == AlNum \cup {"_"}

UpperOf ==
  [c \in LowerLetters |->
     CASE c = "a" -> "A" [] c = "b" -> "B" [] c = "c" -> "C" [] c = "d" -> "D"
       [] c = "e" -> "E" [] c = "f" -> "F" [] c = "g" -> "G" [] c = "h" -> "H"
       [] c = "i" -> "I" [] c = "j" -> "J" [] c = "k" -> "K" [] c = "l" -> "L"
       [] c = "m" -> "M" [] c = "n" -> "N" [] c = "o" -> "O" [] c = "p" -> "P"
       [] c = "q" -> "Q" [] c = "r" -> "R" [] c = "s" -> "S" [] c = "t" -> "T"
       [] c = "u" -> "U" [] c = "v" -> "V" [] c = "w" -> "W" [] c = "x" -> "X"
       [] c = "y" -> "Y" [] c = "z" -> "Z"]

LowerOf ==
  [c \in UpperLetters |-> CHOOSE l \in LowerLetters : UpperOf[l] = c]

\* s[i] (1-based)
CharAt(s, i) == SubSeq(s, i, i)

\* s[i:] (1-based, inclusive)
From(s, i) == SubSeq(s, i, Len(s))

RECURSIVE LowerFrom(_, _)
\* s[i-1:].lower()
LowerFrom(s, i) ==
  IF i > Len(s) THEN ""
  ELSE (IF CharAt(s, i) \in UpperLetters THEN LowerOf[CharAt(s, i)] ELSE CharAt(s, i))
       \o LowerFrom(s, i + 1)

\* str.lower()
Lower(s) == With(s, LAMBDA whole : LowerFrom(whole, 1))

RECURSIVE UpperFrom(_, _)
\* s[i-1:].upper()
UpperFrom(s, i) ==
  IF i > Len(s) THEN ""
  ELSE (IF CharAt(s, i) \in LowerLetters THEN UpperOf[CharAt(s, i)] ELSE CharAt(s, i))
       \o UpperFrom(s, i + 1)

\* str.upper()
Upper(s) == With(s, LAMBDA whole : UpperFrom(whole, 1))

\* s.startswith(k, i-1)
StartsAt(s, i, k) == i + Len(k) - 1 <= Len(s) /\ SubSeq(s, i, i + Len(k) - 1) = k

\* k in s
Contains(s, k) == \E i \in 1..(Len(s) - Len(k) + 1) : StartsAt(s, i, k)

\* s.endswith(k)
EndsWith(s, k) == Len(k) <= Len(s) /\ SubSeq(s, Len(s) - Len(k) + 1, Len(s)) = k

\* s.find(k) + 1 (0 when k does not occur in s)
Find(s, k) ==
  IF Contains(s, k)
  THEN CHOOSE i \in 1..Len(s) :
         /\ StartsAt(s, i, k)
         /\ \A j \in 1..(i - 1) : ~StartsAt(s, j, k)
  ELSE 0

\* A variant of Strip that removes nothing.
StripNothing(s) == s

\* str.strip() (the queries hold no whitespace but the space): s from its
\* first to its last character other than a space.
Strip(s) ==
  With(s, LAMBDA whole :
  With({i \in 1..Len(whole) : CharAt(whole, i) # " "}, LAMBDA solid :
    IF solid = {} THEN ""
    ELSE SubSeq(whole, CHOOSE i \in solid : \A k \in solid : i <= k,
                       CHOOSE j \in solid : \A k \in solid : k <= j)))

RECURSIVE SplitFrom(_, _, _)
\* s[i-1:].split(sep)
SplitFrom(s, sep, i) ==
  With({j \in i..(Len(s) - Len(sep) + 1) : StartsAt(s, j, sep)}, LAMBDA hits :
    IF hits = {} THEN <<SubSeq(s, i, Len(s))>>
    ELSE With(CHOOSE j \in hits : \A k \in hits : j <= k, LAMBDA j :
           <<SubSeq(s, i, j - 1)>> \o SplitFrom(s, sep, j + Len(sep))))

\* s.split(sep): the pieces between the non-overlapping occurrences of sep,
\* found left to right.
Split(s, sep) == With(s, LAMBDA whole : SplitFrom(whole, sep, 1))

(***************************************************************************)
(* MCPRegistry: the tool catalog                                           *)
(***************************************************************************)
\* MCPRegistry._initialize_tools: the catalog, in insertion order.
Tools == <<
  [name |-> "Part_Details",
   keywords |-> <<"part details", "specifications", "datasheet", "parameters", "features">>,
   requires |-> <<"part_number", "manufacturer">>,
   api_method |-> "get_part_details"],
  [name |-> "Part_Search",
   keywords |-> <<"search", "find", "lookup", "part number">>,
   requires |-> <<"part_number">>,
   api_method |-> "search_parts"],
  [name |-> "Market_Availability",
   keywords |-> <<"market", "availability", "price", "pricing", "stock", "inventory",
                  "distributor", "lead time">>,
   requires |-> <<"part_number">>,
   api_method |-> "get_market_availability"],
  [name |-> "Cross_References",
   keywords |-> <<"cross reference", "alternative", "replacement", "substitute",
                  "equivalent", "crosses">>,
   requires |-> <<"part_number", "manufacturer">>,
   api_method |-> "get_cross_references"],
  [name |-> "Company_Litigations",
   keywords |-> <<"litigation", "lawsuit", "legal", "court", "case", "litigations">>,
   requires |-> <<"company">>,
   api_method |-> "get_company_litigations"],
  [name |-> "Company_Details",
   keywords |-> <<"company details", "company info", "business", "revenue", "employees">>,
   requires |-> <<"company">>,
   api_method |-> "get_company_details"],
  [name |-> "Supply_Chain_Locations",
   keywords |-> <<"supply chain", "factory", "location", "manufacturing", "facility">>,
   requires |-> <<"company">>,
   api_method |-> "get_supply_chain_locations"],
  [name |-> "Supply_Chain_Events",
   keywords |-> <<"supply chain event", "disruption", "shortage", "supply news">>,
   requires |-> <<>>,
   api_method |-> "get_supply_chain_events"],
  [name |-> "Digikey_Stock",
   keywords |-> <<"digikey", "digi-key", "digikey stock", "digikey price">>,
   requires |-> <<"part_number">>,
   api_method |-> "get_digikey_stock"],
  [name |-> "Compliance_Data",
   keywords |-> <<"rohs", "reach", "compliance", "environmental", "restriction", "hazardous">>,
   requires |-> <<"part_number">>,
   api_method |-> "get_compliance_data"] >>

\* The value of analyze_query's best_tool when no tool was chosen.
NoTool == [name |-> None, keywords |-> <<>>, requires |-> <<>>, api_method |-> None]

\* The entity record of _extract_parameters.
Params(p, m, c) == [part_number |-> p, manufacturer |-> m, company |-> c]

(***************************************************************************)
(* MCPRegistry._simple_extraction_fallback                                 *)
(***************************************************************************)
RECURSIVE RunEnd(_, _, _)
\* The index of the last character of the longest run of characters of S
\* that starts at i (i - 1 when the run is empty): a greedy X+ of re.
RunEnd(s, i, S) ==
  IF i <= Len(s) /\ CharAt(s, i) \in S THEN RunEnd(s, i + 1, S) ELSE i - 1

\* \b after index e, where s[e] is a word character.
BoundaryAfter(s, e) == e = Len(s) \/ CharAt(s, e + 1) \notin WordChars

RECURSIVE SuffixEnds(_, _)
\* The ends that (?:[-][A-Z0-9]+)* can reach from e, the shortest first.
SuffixEnds(s, e) ==
  LET g == RunEnd(s, e + 2, AlNum) IN
  IF e + 1 <= Len(s) /\ CharAt(s, e + 1) = "-" /\ g >= e + 2
  THEN <<e>> \o SuffixEnds(s, g)
  ELSE <<e>>

\* The end of the match of \b([A-Z]{2,}[0-9]+(?:[-][A-Z0-9]+)*)\b (IGNORECASE)
\* that starts at i, or 0 when there is none.
PartMatchAt(s, i) ==
  With(RunEnd(s, i, Letters), LAMBDA le :
  With(RunEnd(s, le + 1, Digits), LAMBDA de :
  With(SuffixEnds(s, de), LAMBDA ends :
  With({k \in 1..Len(ends) : BoundaryAfter(s, ends[k])}, LAMBDA ok :
     IF /\ (i = 1 \/ CharAt(s, i - 1) \notin WordChars)
        /\ le - i + 1 >= 2
        /\ de >= le + 1
        /\ ok # {}
     THEN ends[CHOOSE k \in ok : \A j \in ok : j <= k]
     ELSE 0))))

\* re.search(...).group(1) of the part-number pattern, or None.
PartMatch(s) ==
  With({i \in 1..Len(s) : PartMatchAt(s, i) > 0}, LAMBDA starts :
    IF starts = {} THEN None
    ELSE With(CHOOSE a \in starts : \A b \in starts : a <= b, LAMBDA i :
           SubSeq(s, i, PartMatchAt(s, i))))

\* MCPRegistry._simple_extraction_fallback
SimpleExtractionFallback(query) ==
  With(PartMatch(query), LAMBDA part :
  With(IF part # None THEN Upper(part) ELSE None, LAMBDA part_number :
  With(Lower(query), LAMBDA q :
     IF Contains(q, "litigation") \/ Contains(q, "lawsuit") \/ Contains(q, "legal")
     THEN Params(part_number, None,
                 IF Contains(q, "toshiba") THEN "Toshiba"
                 ELSE IF Contains(q, "texas instruments") THEN "Texas Instruments"
                 ELSE IF Contains(q, "intel") THEN "Intel"
                 ELSE IF Contains(q, "nxp") THEN "NXP"
                 ELSE None)
     ELSE Params(part_number,
                 IF Contains(q, "toshiba") THEN "Toshiba"
                 ELSE IF Contains(q, "texas instruments") \/ Contains(q, " ti ")
                         \/ EndsWith(q, " ti")
                      THEN "Texas Instruments"
                 ELSE IF Contains(q, "digikey") THEN None
                 ELSE IF Contains(q, "onsemi") THEN "onsemi"
                 ELSE None,
                 None))))

(***************************************************************************)
(* MCPRegistry._score_tool and MCPRegistry.analyze_query                   *)
(***************************************************************************)
\* A variant of KeywordScore that gives 8 for every keyword.
KeywordScoreHeavy(tool, query_lower) ==
  8 * Cardinality({i \in 1..Len(tool.keywords) : Contains(query_lower, tool.keywords[i])})

\* The keyword loop of _score_tool: 2.0 for every keyword of the tool that is
\* a substring of the lower-cased query.
KeywordScore(tool, query_lower) ==
  2 * Cardinality({i \in 1..Len(tool.keywords) : Contains(query_lower, tool.keywords[i])})

\* A variant of SlotSatisfied in which only a company fills the company slot.
SlotSatisfiedCompanyOnly(tool, req, params) ==
  IF req = "company" THEN Truthy(params.company)
  ELSE IF req = "part_number" THEN Truthy(params.part_number)
  ELSE IF req = "manufacturer" /\ ~Truthy(params.manufacturer)
  THEN tool.name \notin {"Part_Details", "Cross_References"}
  ELSE TRUE

\* One iteration of the required-parameter loop of _score_tool: TRUE when the
\* requirement req does not clear has_required.
SlotSatisfied(tool, req, params) ==
  IF req = "company" /\ ~Truthy(params.company)
  THEN Truthy(params.manufacturer)
  ELSE IF req = "part_number" /\ ~Truthy(params.part_number)
  THEN FALSE
  ELSE IF req = "manufacturer" /\ ~Truthy(params.manufacturer)
  THEN tool.name \notin {"Part_Details", "Cross_References"}
  ELSE TRUE

\* A variant of HasRequired without the gate on the required parameters.
HasRequiredUngated(tool, params) == TRUE

\* has_required of _score_tool
HasRequired(tool, params) ==
  \A i \in 1..Len(tool.requires) : SlotSatisfied(tool, tool.requires[i], params)

\* The pattern bonuses of _score_tool.
PatternBonus(tool, q, params) ==
    (IF Contains(q, "cross reference") /\ tool.name = "Cross_References" THEN 15 ELSE 0)
  + (IF Contains(q, "alternative") /\ tool.name = "Cross_References" THEN 10 ELSE 0)
  + (IF Contains(q, "replacement") /\ tool.name = "Cross_References" THEN 10 ELSE 0)
  + (IF Contains(q, "litigation") /\ tool.name = "Company_Litigations" THEN 10 ELSE 0)
  + (IF Contains(q, "company") /\ Contains(q, "details") /\ tool.name = "Company_Details"
     THEN 8 ELSE 0)
  + (IF Contains(q, "supply chain")
     THEN (IF Contains(q, "location") /\ tool.name = "Supply_Chain_Locations" THEN 8
           ELSE IF Contains(q, "event") /\ tool.name = "Supply_Chain_Events" THEN 8
           ELSE 0)
     ELSE 0)
  + (IF Contains(q, "digikey") /\ tool.name = "Digikey_Stock" THEN 10 ELSE 0)
  + (IF (Contains(q, "rohs") \/ Contains(q, "reach") \/ Contains(q, "compliance"))
        /\ tool.name = "Compliance_Data"
     THEN 8 ELSE 0)
  + (IF Truthy(params.part_number) /\ Truthy(params.manufacturer)
        /\ tool.name = "Part_Details"
     THEN 3 ELSE 0)
  + (IF Truthy(params.part_number) /\ ~Truthy(params.manufacturer)
        /\ tool.name = "Part_Search"
     THEN 2 ELSE 0)

\* MCPRegistry._score_tool (the scores are whole numbers of points)
ScoreTool(tool, query_lower, params) ==
  IF ~HasRequired(tool, params) THEN 0
  ELSE KeywordScore(tool, query_lower) + PatternBonus(tool, query_lower, params)

\* A variant of Better in which a later tool with an equal score wins.
BetterOrEqual(score, best_score) == score >= best_score

\* "if score > best_score" of analyze_query
Better(score, best_score) == score > best_score

RECURSIVE ScoresFrom(_, _, _)
\* The value of score in each iteration of the loop of analyze_query from
\* catalog position i on, in order.
ScoresFrom(i, query_lower, params) ==
  IF i > Len(Tools) THEN <<>>
  ELSE <<ScoreTool(Tools[i], query_lower, params)>> \o ScoresFrom(i + 1, query_lower, params)

\* The scores analyze_query computes for query, one for each catalog tool.
ToolScores(query, params) ==
  With(Lower(query), LAMBDA query_lower : ScoresFrom(1, query_lower, params))

RECURSIVE BestFrom(_, _, _, _, _)
\* The loop of analyze_query from catalog position i on, scores[i] being the
\* score of tool i.
BestFrom(i, best_tool, best_score, scores, params) ==
  IF i > Len(Tools) THEN [tool |-> best_tool, parameters |-> params, confidence |-> best_score]
  ELSE IF Better(scores[i], best_score)
  THEN BestFrom(i + 1, Tools[i], scores[i], scores, params)
  ELSE BestFrom(i + 1, best_tool, best_score, scores, params)

\* A variant of BestTool whose loop starts from the first tool of the catalog
\* instead of from no tool.
BestToolFirst(scores, params) == BestFrom(2, Tools[1], scores[1], scores, params)

\* What analyze_query returns, given the scores of its loop and the entities
\* _extract_parameters returned.
BestTool(scores, params) == BestFrom(1, NoTool, 0, scores, params)

\* MCPRegistry.analyze_query, given the entities _extract_parameters returned.
AnalyzeQuery(query, params) ==
  With(ToolScores(query, params), LAMBDA scores : BestTool(scores, params))

(***************************************************************************)
(* Z2DataClient                                                            *)
(***************************************************************************)
\* The largest identifier the validation endpoints hand out in the model.
MaxId == 2

\* The largest number of records a fetch endpoint returns in the model.
MaxRows == 1

\* A result dict of a client method (absent keys are None; rows counts the
\* records of 'data').
Result(success, error, type, rows, part_number, manufacturer, company_name) ==
  [shape |-> "dict", success |-> IF success THEN "True" ELSE "False",
   error |-> error, type |-> type, content |-> None, title |-> None, rows |-> rows,
   part_number |-> part_number, manufacturer |-> manufacturer,
   company_name |-> company_name]

\* {"success": False, "error": error}
Failure(error) == Result(FALSE, error, None, 0, None, None, None)

\* The text of the exception a timed out request raises, as str(e).
TimeoutText == "timed out"

\* f"API error: {e.response.status_code}" for the non-2xx status of the model.
ApiErrorText == "API error: 500"

\* re.sub(r'(search|for|find)\s+', '', query, flags=re.IGNORECASE):
\* clean[i] is what the substitution leaves of s[i-1:].
CleanQuery(s) ==
  With(s, LAMBDA whole :
    LET clean[i \in 1..(Len(whole) + 1)] ==
          IF i > Len(whole) THEN ""
          ELSE LET w == IF i + 5 <= Len(whole) /\ Lower(SubSeq(whole, i, i + 5)) = "search"
                        THEN 6
                        ELSE IF i + 2 <= Len(whole) /\ Lower(SubSeq(whole, i, i + 2)) = "for"
                        THEN 3
                        ELSE IF i + 3 <= Len(whole) /\ Lower(SubSeq(whole, i, i + 3)) = "find"
                        THEN 4
                        ELSE 0
                   e == RunEnd(whole, i + w, {" "})
               IN  IF w > 0 /\ e >= i + w
                   THEN clean[e + 1]
                   ELSE CharAt(whole, i) \o clean[i + 1]
    IN  clean[1])

\* The part number search_parts takes out of its query:
\* re.search(r'([A-Z0-9][A-Z0-9\-\.]+)', cleaned_query, re.IGNORECASE), else
\* the cleaned query itself.
SearchPartNumber(query) ==
  With(Strip(CleanQuery(query)), LAMBDA cleaned :
  With({i \in 1..(Len(cleaned) - 1) :
          /\ CharAt(cleaned, i) \in AlNum
          /\ CharAt(cleaned, i + 1) \in AlNum \cup {"-", "."}}, LAMBDA starts :
     IF starts = {} THEN cleaned
     ELSE With(CHOOSE a \in starts : \A b \in starts : a <= b, LAMBDA i :
            SubSeq(cleaned, i, RunEnd(cleaned, i + 1, AlNum \cup {"-", "."})))))

\* The methods of Z2DataClient that validate a part, then fetch by part id.
PartMethods == {"get_part_details", "get_market_availability", "get_cross_references"}

\* The methods of Z2DataClient that validate a company, then fetch by company id.
CompanyMethods == {"get_company_details", "get_company_litigations",
                   "get_company_supply_chain"}

\* The methods the class Z2DataClient defines (those DataAgent can name).
ClientMethods == PartMethods \cup CompanyMethods
                 \cup {"search_parts", "get_supply_chain_events", "get_compliance_data"}

\* The two-phase method that does the work of a client method: search_parts
\* with a manufacturer and get_compliance_data call get_part_details.
Kernel(method) ==
  IF method \in {"search_parts", "get_compliance_data"} THEN "get_part_details" ELSE method

\* The endpoint of the second call of a two-phase method.
FetchEndpoint(kernel) ==
  CASE kernel = "get_part_details" -> "GetPartDetailsBypartID"
    [] kernel = "get_market_availability" -> "MarketAvailability"
    [] kernel = "get_cross_references" -> "GetCrossDataByPartId"
    [] kernel = "get_company_details" -> "GetCompanyDataDetailsByCompanyID"
    [] kernel = "get_company_litigations" -> "GetCompanyLitigationsByCompanyID"
    [] kernel = "get_company_supply_chain" -> "GetCompanySupplyChainByCompanyID"

\* The 'type' of the result of a successful two-phase method.
ResultType(kernel) ==
  CASE kernel = "get_part_details" -> "part_details"
    [] kernel = "get_market_availability" -> "market_availability"
    [] kernel = "get_cross_references" -> "cross_references"
    [] kernel = "get_company_details" -> "company_details"
    [] kernel = "get_company_litigations" -> "company_litigations"
    [] kernel = "get_company_supply_chain" -> "supply_chain"

\* The client call in flight: the method DataAgent called, the arguments of
\* its two-phase kernel (mpn, man or company), the query of search_parts and
\* the identifier the validation returned (0 before it has).
Client(method, mpn, man, company, query) ==
  [method |-> method, mpn |-> mpn, man |-> man, company |-> company,
   query |-> query, id |-> 0]

NoClient == Client(None, None, None, None, None)

\* A client method up to its first network call: the call it awaits
\* (pc, client), or the result it returns without any call.
\* a1, a2 are the method's positional arguments (None: not passed).
ClientCall(method, a1, a2) ==
  LET two(mpn, man) ==
        \* validate_part: "if not part_number"
        IF ~Truthy(mpn)
        THEN [pc |-> "return", result |-> Failure("Part number is required")]
        ELSE [pc |-> "validate", client |-> Client(method, mpn, man, None, a1)]
  IN CASE method \in PartMethods -> two(a1, IF a2 = None THEN "" ELSE a2)
       [] method = "get_compliance_data" -> two(a1, IF a2 = None THEN "" ELSE a2)
       [] method = "search_parts" ->
            With(SearchPartNumber(a1), LAMBDA part_number :
              IF Truthy(a2) THEN two(part_number, a2)
              ELSE [pc |-> "search",
                    client |-> Client(method, part_number, None, None, a1)])
       [] method \in CompanyMethods ->
            \* validate_company: "if not company_name"
            IF ~Truthy(a1)
            THEN [pc |-> "return", result |-> Failure("Company name is required")]
            ELSE [pc |-> "validate", client |-> Client(method, None, None, a1, a1)]
       [] method = "get_supply_chain_events" ->
            [pc |-> "events", client |-> Client(method, None, None, None, None)]

\* What a client method returns when its kernel returned res: search_parts
\* and get_compliance_data re-wrap the result of get_part_details.
MethodResult(c, res) ==
  CASE c.method = "search_parts" ->
         IF res.success = "True"
         THEN [res EXCEPT !.type = "search_results", !.part_number = None,
                          !.manufacturer = None]
         ELSE [Failure(IF Truthy(res.error) THEN res.error
                       ELSE "No parts found for '" \o c.mpn \o "'")
                 EXCEPT !.type = "search_results"]
    [] c.method = "get_compliance_data" ->
         \* "if result.get('success') and result.get('data')"
         IF res.success = "True" /\ res.rows > 0
         THEN [res EXCEPT !.type = "compliance"]
         ELSE res
    [] OTHER -> res

\* The outcomes of GetValidationPart / CompanyValidation: a first result with
\* identifier id (0: a result without a valid identifier), no result at all,
\* a non-2xx status, a timeout.
ValidateOutcomes ==
  [kind : {"result"}, id : 0..MaxId]
  \cup [kind : {"empty", "http_error", "timeout"}, id : {0}]

\* The outcomes of a fetch, search or events call: a 2xx response with rows
\* records, a non-2xx status, a timeout.
FetchOutcomes ==
  [kind : {"ok"}, rows : 0..MaxRows]
  \cup [kind : {"http_error", "timeout"}, rows : {0}]

\* validate_part / validate_company: the result for outcome out.
ValidationResult(c, out) ==
  IF Kernel(c.method) \in PartMethods
  THEN CASE out.kind = "result" /\ out.id > 0 -> Result(TRUE, None, None, 0, None, None, None)
         [] out.kind = "result" /\ out.id = 0 ->
              Failure("Part '" \o c.mpn \o "' not found in Z2Data database")
         [] out.kind = "empty" -> Failure("Part " \o c.mpn \o " not found")
         [] out.kind = "http_error" -> Failure(ApiErrorText)
         [] out.kind = "timeout" -> Failure(TimeoutText)
  ELSE CASE out.kind = "result" -> Result(TRUE, None, None, 0, None, None, None)
         [] out.kind = "empty" -> Failure("Company " \o c.company \o " not found")
         [] out.kind = "http_error" -> Failure(ApiErrorText)
         [] out.kind = "timeout" -> Failure(TimeoutText)

\* "if not validation_result.get('success'): return validation_result";
\* "if not part_id: return ..." : TRUE when the method goes on to its fetch.
ProceedsToFetch(c, out) ==
  ValidationResult(c, out).success = "True" /\ out.id # 0

\* A variant of FetchKey that keys every fetch by the first identifier.
FetchKeyFirst(id) == 1

\* The identifier the fetch call is keyed by, given the validated one.
FetchKey(id) == id

\* What a two-phase method returns when it does not go on to its fetch.
NoFetchResult(c, out) ==
  LET v == ValidationResult(c, out) IN
  IF v.success # "True" THEN v
  ELSE Failure(IF Kernel(c.method) \in PartMethods
               THEN "Could not obtain part ID" ELSE "Could not obtain company ID")

\* What a two-phase method returns after its fetch call.
FetchResult(c, out) ==
  CASE out.kind = "ok" ->
         IF Kernel(c.method) \in PartMethods
         THEN Result(TRUE, None, ResultType(Kernel(c.method)), out.rows, c.mpn, c.man, None)
         ELSE Result(TRUE, None, ResultType(Kernel(c.method)), out.rows, None, None,
                     c.company)
    [] out.kind = "http_error" -> Failure(ApiErrorText)
    [] out.kind = "timeout" -> Failure(TimeoutText)

\* What search_parts returns after GetPartDetailsBySearch.
SearchResult(c, out) ==
  CASE out.kind = "ok" ->
         IF out.rows > 0
         THEN Result(TRUE, None, "search_results", out.rows, None, None, None)
         ELSE [Failure("No parts found for '" \o c.mpn \o "'")
                 EXCEPT !.type = "search_results"]
    [] out.kind = "http_error" -> [Failure(ApiErrorText) EXCEPT !.type = "search_results"]
    [] out.kind = "timeout" -> [Failure(TimeoutText) EXCEPT !.type = "search_results"]

\* What get_supply_chain_events returns after GetAllEventsGrouped.
EventsResult(out) ==
  CASE out.kind = "ok" -> Result(TRUE, None, "supply_chain_events", out.rows, None, None, None)
    [] out.kind = "http_error" -> Failure(ApiErrorText)
    [] out.kind = "timeout" -> Failure(TimeoutText)

\* An entry of the record of network calls made for the query.
Call(endpoint, method, mpn, man, company, key, ok, id) ==
  [endpoint |-> endpoint, method |-> method, mpn |-> mpn, man |-> man,
   company |-> company, key |-> key, ok |-> ok, id |-> id, outcome |-> None]

\* The entry of the validation call of client call c with outcome out.
ValidateCall(c, out) ==
  [(IF Kernel(c.method) \in PartMethods
    THEN Call("GetValidationPart", Kernel(c.method), c.mpn, c.man, None, 0,
              ValidationResult(c, out).success = "True", out.id)
    ELSE Call("CompanyValidation", Kernel(c.method), None, None, c.company, 0,
              ValidationResult(c, out).success = "True", out.id))
   EXCEPT !.outcome = out.kind]

(***************************************************************************)
(* DataAgent: responses                                                    *)
(***************************************************************************)
\* A str response.
Str(text) ==
  [shape |-> "str", success |-> None, error |-> None, type |-> None, content |-> text,
   title |-> None, rows |-> 0, part_number |-> None, manufacturer |-> None,
   company_name |-> None]

\* {"type": type, "content": content}
Typed(type, content) == [Str(content) EXCEPT !.shape = "dict", !.type = type]

\* {"type": "table", "title": title, "data": [rows records]}
Table(title, rows) ==
  [Str(None) EXCEPT !.shape = "dict", !.type = "table", !.title = title, !.rows = rows]

\* result.get('error', 'Unknown error')
ErrorOf(res) == IF res.error = None THEN "Unknown error" ELSE res.error

\* DataAgent._format_litigation_response
FormatLitigationResponse(res) ==
  LET company_name == IF Truthy(res.company_name) THEN res.company_name ELSE "Unknown" IN
  IF res.rows = 0
  THEN Table("No litigation records found for " \o company_name, 0)
  ELSE Table("Litigation History for " \o company_name, res.rows)

\* DataAgent._format_cross_reference_response: the reference part's row,
\* then a row for every cross of the payload (rows: the crosses of a payload
\* that is not empty).
FormatCrossReferenceResponse(res) ==
  IF res.success # "True" THEN Typed("error", ErrorOf(res))
  ELSE IF res.rows = 0
  THEN Typed("text", "No cross references found for "
                     \o (IF res.part_number = None THEN "this part" ELSE res.part_number))
  ELSE Table("Cross References", 1 + res.rows)

\* The dict DataAgent.process returns.
Reply(response, success, error) ==
  [response |-> response, agent_type |-> "data", success |-> success, error |-> error]

NoReply == Reply(Str(None), FALSE, None)

\* The tail of DataAgent.process: the dict returned for response.
Wrap(response) ==
  IF response.shape = "dict"
  THEN IF response.type \in {"table", "part_details"} THEN Reply(response, TRUE, None)
       ELSE Reply(IF Truthy(response.type) THEN response ELSE Str(""),
                  response.success # "False", None)
  ELSE Reply(response, TRUE, None)

(***************************************************************************)
(* DataAgent: the operations process dispatches                            *)
(***************************************************************************)
\* Where DataAgent stands while a client call is in flight: the method of
\* DataAgent that awaits the client (agent_method), whether it was entered
\* through _execute_mcp_tool (via_mcp) and for which api_method, its
\* arguments (company_name is set by the company operations), and how many
\* client calls it has made (attempt).
Frame(agent_method, via_mcp, api_method, part_number, manufacturer, original_manufacturer, attempt) ==
  [agent_method |-> agent_method, via_mcp |-> via_mcp, api_method |-> api_method,
   part_number |-> part_number, manufacturer |-> manufacturer,
   original_manufacturer |-> original_manufacturer, company_name |-> None,
   attempt |-> attempt]

NoFrame == Frame(None, FALSE, None, None, None, None, 0)

\* "original_manufacturer.lower() != manufacturer.lower()" of _get_part_details
DistinctManufacturer(original_manufacturer, manufacturer) ==
  Lower(original_manufacturer) # Lower(manufacturer)

\* "if result.get('error') or ...": _get_part_details takes its result for
\* a part that was not found.
NotFound(res) == Truthy(res.error)

\* What DataAgent does with the result res of the client call it awaited in
\* frame f: return a response, or make another client call.
AfterClient(f, res) ==
  LET return(v) == [kind |-> "return", value |-> v, frame |-> f]
      call(g, method, a1, a2) ==
        [kind |-> "call", frame |-> g, method |-> method, a1 |-> a1, a2 |-> a2]
      ok == res.success = "True"
  IN CASE f.agent_method = "_get_part_details" ->
            IF f.attempt = 1 /\ NotFound(res) /\ Truthy(f.original_manufacturer)
            THEN IF f.manufacturer = None
                 THEN \* None.lower(): AttributeError, caught by _get_part_details
                      return(Typed("error", "Error getting part details: 'NoneType' "
                                            \o "object has no attribute 'lower'"))
                 ELSE IF DistinctManufacturer(f.original_manufacturer, f.manufacturer)
                 THEN call([f EXCEPT !.attempt = 2], "get_part_details",
                           f.part_number, f.original_manufacturer)
                 ELSE return(res)
            ELSE return(res)
       [] f.agent_method = "_execute_mcp_tool" ->
           (CASE f.api_method = "get_company_litigations" ->
                   IF ok THEN return(FormatLitigationResponse(res))
                   ELSE return(Str("Failed to get litigation data: " \o ErrorOf(res)))
              [] f.api_method = "get_company_details" ->
                   IF ok THEN return(Str("**Company Details: None**"))
                   ELSE return(Str("Failed to get company details: " \o ErrorOf(res)))
              [] f.api_method = "get_supply_chain_events" ->
                   IF ok THEN return(Str("**Supply Chain Events (None)**"))
                   ELSE return(Str("Failed to get supply chain events: " \o ErrorOf(res)))
              [] f.api_method = "get_market_availability" ->
                   IF ok THEN return(Str("Market availability data retrieved: "
                                         \o "No summary available"))
                   ELSE call([f EXCEPT !.agent_method = "_get_market_data", !.attempt = 2],
                             "get_market_availability", f.part_number, None)
              [] f.api_method = "get_cross_references" ->
                   IF ok THEN return(FormatCrossReferenceResponse(res))
                   ELSE return(Str("Failed to get cross references: " \o ErrorOf(res)))
              [] f.api_method = "get_compliance_data" ->
                   return(Str("**Compliance Information**")))
       [] OTHER -> return(res)

\* A variant of Except that lets the exception leave process.
Escapes(e) == [exception |-> e]

\* The except clause of process: the dict returned for exception e (e is
\* str(e)).
Except(e) == Reply(Str("Error processing data request: " \o e), FALSE, e)

\* The configuration in which an exception was raised inside the try block
\* of process.
Raised(e) == [pc |-> "done", frame |-> NoFrame, client |-> NoClient, reply |-> Except(e)]

\* A variant of Returned that answers while a call of the events endpoint is
\* left in flight.
ReturnedPending(f, v) == [pc |-> "events", frame |-> f, client |-> NoClient, reply |-> Wrap(v)]

\* The configuration in which process has returned value v.
Returned(f, v) == [pc |-> "done", frame |-> f, client |-> NoClient, reply |-> Wrap(v)]

RECURSIVE Resume(_, _)
RECURSIVE Invoke(_, _, _, _)
\* DataAgent receives result res of the client method it awaited in frame f.
Resume(f, res) ==
  With(AfterClient(f, res), LAMBDA step :
    IF step.kind = "return" THEN Returned(f, step.value)
    ELSE Invoke(step.frame, step.method, step.a1, step.a2))

\* DataAgent, in frame f, calls client method method(a1, a2).
Invoke(f, method, a1, a2) ==
  With(ClientCall(method, a1, a2), LAMBDA c :
    IF c.pc = "return"
    THEN Resume(f, MethodResult(Client(method, a1, a2, a1, a1), c.result))
    ELSE [pc |-> c.pc, frame |-> f, client |-> c.client, reply |-> NoReply])

\* The text of the AttributeError of a method Z2DataClient does not define.
NoAttribute(method) == "'Z2DataClient' object has no attribute '" \o method \o "'"

\* DataAgent._execute_mcp_tool, up to its first client call.
ExecuteMcpTool(mcp) ==
  LET tool == mcp.tool
      params == mcp.parameters
      api == tool.api_method
      f == Frame("_execute_mcp_tool", TRUE, api, params.part_number,
                 params.manufacturer, None, 1)
      missing(method) ==
        Returned(f, Str("Error executing " \o tool.name \o ": " \o NoAttribute(method)))
      say(text) == Returned(f, Str(text))
  IN CASE ~Truthy(api) ->
            say("Tool " \o tool.name \o " does not have an API method configured")
       [] api = "get_company_litigations" ->
            IF Truthy(params.company)
            THEN Invoke(f, "get_company_litigations", params.company, None)
            ELSE say("Company name is required for litigation search")
       [] api = "get_company_details" ->
            IF Truthy(params.company)
            THEN Invoke(f, "get_company_details", params.company, None)
            ELSE say("Company name is required for company details")
       [] api = "get_supply_chain_locations" ->
            IF Truthy(params.company)
            THEN (IF "get_supply_chain_locations" \in ClientMethods
                  THEN Invoke(f, "get_supply_chain_locations", params.company, None)
                  ELSE missing("get_supply_chain_locations"))
            ELSE say("Company name is required for supply chain locations")
       [] api = "get_digikey_stock" ->
            IF Truthy(params.part_number)
            THEN (IF "get_digikey_stock" \in ClientMethods
                  THEN Invoke(f, "get_digikey_stock", params.part_number, params.manufacturer)
                  ELSE missing("get_digikey_stock"))
            ELSE say("Part number is required for DigiKey stock check")
       [] api = "get_supply_chain_events" ->
            Invoke(f, "get_supply_chain_events", None, None)
       [] api = "get_part_details" ->
            IF Truthy(params.part_number) /\ Truthy(params.manufacturer)
            THEN Invoke([f EXCEPT !.agent_method = "_get_part_details"],
                        "get_part_details", params.part_number, params.manufacturer)
            ELSE say("Both part number and manufacturer are required for part details")
       [] api = "search_parts" ->
            IF Truthy(params.part_number)
            THEN Invoke([f EXCEPT !.agent_method = "_search_parts"],
                        "search_parts", params.part_number, None)
            ELSE say("Part number is required for part search")
       [] api = "get_market_availability" ->
            IF Truthy(params.part_number)
            THEN Invoke(f, "get_market_availability", params.part_number, None)
            ELSE say("Part number is required for market availability")
       [] api = "get_cross_references" ->
            IF Truthy(params.part_number) /\ Truthy(params.manufacturer)
            THEN Invoke(f, "get_cross_references", params.part_number, params.manufacturer)
            ELSE say("Both part number and manufacturer are required for cross references")
       [] api = "get_compliance_data" ->
            IF Truthy(params.part_number)
            THEN Invoke(f, "get_compliance_data", params.part_number, None)
            ELSE say("Part number is required for compliance data")
       [] OTHER -> say("Unknown API method: " \o api)

(***************************************************************************)
(* DataAgent._analyze_query and the decision list of DataAgent.process     *)
(***************************************************************************)
\* The intent keys of the analysis dict.
IntentFlags == {"is_part_search", "is_market_query", "is_bom_query", "is_enrichment_query",
                "is_litigation_query", "is_company_query", "is_cross_reference_query"}

\* The analysis dict of _analyze_query (flags: the intent keys that are true;
\* a key that is absent reads as None with get; absent: the keys among those
\* process subscripts that the dict lacks).
Analysis(part_number, manufacturer, company_name, original_manufacturer, has_manufacturer, flags) ==
  [part_number |-> part_number, manufacturer |-> manufacturer,
   company_name |-> company_name, original_manufacturer |-> original_manufacturer,
   has_manufacturer |-> has_manufacturer, flags |-> flags, absent |-> {}]

NoAnalysis == Analysis(None, None, None, None, FALSE, {})

\* The "by" pattern of _analyze_query: the text after " by ", or None.
OriginalManufacturer(query) ==
  With(Lower(query), LAMBDA query_lower :
    IF Contains(query_lower, " by ")
    THEN With(Split(query_lower, " by "), LAMBDA parts :
           IF Len(parts) = 2 THEN Strip(parts[2]) ELSE None)
    ELSE None)

\* The analysis _analyze_query returns when DataAgent has no LLM.
BasicAnalysis(query) ==
  With(OriginalManufacturer(query), LAMBDA original_manufacturer :
    Analysis(Upper(Strip(query)), original_manufacturer, None, original_manufacturer,
             Truthy(original_manufacturer), {"is_part_search"}))

\* A variant of FailedAnalysis that claims a manufacturer.
FailedAnalysisWithManufacturer(query) ==
  Analysis(Upper(Strip(query)), None, None, None, TRUE, {"is_part_search"})

\* The analysis _analyze_query returns when the LLM raised or its answer is
\* not JSON.
FailedAnalysis(query) ==
  Analysis(Upper(Strip(query)), None, None, None, FALSE, {"is_part_search"})

\* The analysis _analyze_query returns for the parsed answer of the LLM:
\* "result['original_manufacturer'] = original_manufacturer".
ParsedAnalysis(answer, original_manufacturer) ==
  [answer EXCEPT !.original_manufacturer = original_manufacturer]

\* "if len(message.strip()) <= 20"
ShortMessageLimit == 20

\* A variant of Rule whose rule 7 does not test has_manufacturer.
RuleWithoutHasManufacturer(a) ==
  IF "is_market_query" \in a.flags THEN 1
  ELSE IF "is_litigation_query" \in a.flags THEN 2
  ELSE IF "is_company_query" \in a.flags THEN 3
  ELSE IF "is_bom_query" \in a.flags THEN 4
  ELSE IF "is_cross_reference_query" \in a.flags THEN 5
  ELSE IF "is_enrichment_query" \in a.flags THEN 6
  ELSE IF Truthy(a.part_number) THEN 7
  ELSE IF "is_part_search" \in a.flags THEN 8
  ELSE 9

\* A variant of Rule that tests the litigation key before the market key.
RuleLitigationFirst(a) ==
  IF "is_litigation_query" \in a.flags THEN 2
  ELSE IF "is_market_query" \in a.flags THEN 1
  ELSE IF "is_company_query" \in a.flags THEN 3
  ELSE IF "is_bom_query" \in a.flags THEN 4
  ELSE IF "is_cross_reference_query" \in a.flags THEN 5
  ELSE IF "is_enrichment_query" \in a.flags THEN 6
  ELSE IF a.has_manufacturer /\ Truthy(a.part_number) THEN 7
  ELSE IF Truthy(a.part_number) \/ "is_part_search" \in a.flags THEN 8
  ELSE 9

\* The number of the rule of the decision list of process that analysis a
\* selects (1 market ... 9 default).
Rule(a) ==
  IF "is_market_query" \in a.flags THEN 1
  ELSE IF "is_litigation_query" \in a.flags THEN 2
  ELSE IF "is_company_query" \in a.flags THEN 3
  ELSE IF "is_bom_query" \in a.flags THEN 4
  ELSE IF "is_cross_reference_query" \in a.flags THEN 5
  ELSE IF "is_enrichment_query" \in a.flags THEN 6
  ELSE IF a.has_manufacturer /\ Truthy(a.part_number) THEN 7
  ELSE IF Truthy(a.part_number) \/ "is_part_search" \in a.flags THEN 8
  ELSE 9

\* TRUE when the decision list runs analyze_query a second time (rule 5
\* with a manufacturer).
Reanalyzes(a) == Rule(a) = 5 /\ a.has_manufacturer

\* The decision list of DataAgent.process for analysis a, up to the first
\* client call; mcp_result is the second analyze_query of rule 5.
Dispatch(message, a, mcp_result) ==
  LET f(agent_method) ==
        Frame(agent_method, FALSE, None, a.part_number, a.manufacturer, None, 1)
      company_name == Or(a.company_name, a.manufacturer)
      g(agent_method) == [f(agent_method) EXCEPT !.company_name = company_name]
      rule == Rule(a)
  IN CASE rule = 1 ->
            IF Truthy(a.part_number)
            THEN Invoke(f("_get_market_availability"), "get_market_availability",
                        a.part_number, Or(a.manufacturer, ""))
            ELSE Invoke([f("_get_market_data") EXCEPT !.part_number = message],
                        "get_market_availability", message, None)
       [] rule = 2 ->
            IF Truthy(company_name)
            THEN Invoke(g("_get_company_litigations"), "get_company_litigations",
                        company_name, None)
            ELSE Returned(NoFrame, Typed("error",
                            "Please specify a company name for litigation search"))
       [] rule = 3 ->
            IF Truthy(company_name)
            THEN Invoke(g("_get_company_details"), "get_company_details",
                        company_name, None)
            ELSE Returned(NoFrame, Typed("error", "Please specify a company name"))
       [] rule = 4 ->
            Returned(NoFrame, Str("BOM analysis functionality is available through file "
                                  \o "upload. Please upload a CSV or Excel file with your "
                                  \o "BOM data."))
       [] rule = 5 ->
            IF ~a.has_manufacturer
            THEN Returned(NoFrame, Str("To get cross references for " \o a.part_number
                                       \o ", please specify the manufacturer."))
            ELSE IF mcp_result.tool # NoTool THEN ExecuteMcpTool(mcp_result)
            ELSE Returned(NoFrame,
                          Str("Could not find appropriate tool for cross references"))
       [] rule = 6 -> Returned(NoFrame, Str("Please upload a file to enrich the data."))
       [] rule = 7 ->
            IF "manufacturer" \in a.absent THEN Raised("'manufacturer'")
            ELSE
            Invoke([f("_get_part_details")
                      EXCEPT !.original_manufacturer = a.original_manufacturer],
                   "get_part_details", a.part_number, a.manufacturer)
       [] rule = 8 ->
            Invoke(f("_search_parts"), "search_parts", message,
                   Or(a.manufacturer, a.original_manufacturer))
       [] rule = 9 ->
            IF Len(Strip(message)) <= ShortMessageLimit
            THEN Invoke(f("_search_parts"), "search_parts", message, None)
            ELSE Returned(NoFrame, Typed("text", "Processing data query: " \o message))

\* "if mcp_analysis['tool'] and mcp_analysis['confidence'] > 2.0"
Tier1Threshold == 2

\* A variant of Tier1Fires that also fires at the threshold.
Tier1FiresAtThreshold(mcp) == mcp.tool # NoTool /\ mcp.confidence >= Tier1Threshold

Tier1Fires(mcp) == mcp.tool # NoTool /\ mcp.confidence > Tier1Threshold

(***************************************************************************)
(* The state of one call of DataAgent.process                              *)
(***************************************************************************)
VARIABLES
  message,       \* the query passed to process (no file_data in its context)
  registry_llm,  \* MCPRegistry.llm is set (OPENAI_API_KEY)
  agent_llm,     \* DataAgent.llm is set (ANTHROPIC_API_KEY)
  pc,            \* where process stands: "process", "analyze", the network
                 \* call it awaits ("validate", "fetch", "search", "events"), "done"
  tier,          \* 0 before the branch of process, then 1 or 2
  mcp_analysis,  \* mcp_analysis of process
  analysis,      \* analysis of process (Tier 2)
  mcp_result,    \* mcp_result of process (rule 5 of Tier 2)
  frame,         \* the method of DataAgent that awaits the client
  client,        \* the client call in flight
  calls,         \* the network calls made so far, in order
  reply,         \* the dict process returned
  scores,        \* the scores of the tools in the analyze_query call that
                 \* produced mcp_analysis, in catalog order
  result,        \* what the client method returned whose network exchange
                 \* ended last
  tasks,         \* the calls of process that run concurrently on one
                 \* DataAgent: for each, where it stands (pc, frame, client),
                 \* its own network calls, its reply and its last result
  log,           \* the network calls of all concurrent tasks, in the order
                 \* in which they completed, each with its task and with
                 \* what the network answered
  payload,       \* the result of a client method, with its records, that a
                 \* formatter of DataAgent is called with
  table          \* what the formatter returned

vars == <<message, registry_llm, agent_llm, pc, tier, mcp_analysis, analysis,
          mcp_result, frame, client, calls, reply, scores, result, tasks, log,
          payload, table>>

\* The variables of the concurrent tasks and of the formatters.
aside == <<tasks, log, payload, table>>

\* What a formatter returns, before it is called: no dict.
NoTable == [type |-> None, title |-> None, content |-> None, data |-> <<>>]

\* No formatter is called on its own.
NoFormat == payload = None /\ table = NoTable

\* No concurrent task runs: the state describes one call of process.
NoTasks == tasks = <<>> /\ log = <<>> /\ NoFormat

\* The queries of the model.
Queries ==
  {"lm317",
   "LM317 by TI",
   "BAV99 by EVVO Semi",
   "LM317 price stock",
   "toshiba litigations",
   "toshiba legal business",
   "cross references for LM317",
   "DigiKey stock for LM317",
   "supply chain events",
   "rohs compliance for lm317",
   "hello there"}

\* The values the extractor and classifier services answer with.
LlmParts == {None, "LM317"}

LlmManufacturers == {None, "TI", "Texas Instruments"}

LlmCompanies == {None, "Toshiba"}

\* The answers of the extraction LLM of MCPRegistry that parse as JSON.
LlmExtractions ==
  {Params(p, m, c) : p \in LlmParts, m \in LlmManufacturers, c \in LlmCompanies}

\* MCPRegistry._extract_parameters: the entities it can return for query
\* (with an LLM: any parsed answer, or the fallback when the call raised or
\* its answer did not parse).
ExtractParameters(query) ==
  IF registry_llm
  THEN LlmExtractions \cup {SimpleExtractionFallback(query)}
  ELSE {SimpleExtractionFallback(query)}

\* The most intent keys the classifier sets in one answer in the model.
MaxFlags == 1

\* Answers of the analysis LLM that set has_manufacturer and have no
\* "manufacturer" key.
KeylessAnalyses ==
  {[Analysis(p, None, None, None, TRUE, {}) EXCEPT !.absent = {"manufacturer"}] :
     p \in LlmParts}

\* The answers of the analysis LLM of DataAgent that parse as JSON.
LlmAnalyses ==
  {Analysis(p, m, c, None, h, F) :
     p \in LlmParts, m \in LlmManufacturers, c \in LlmCompanies, h \in BOOLEAN,
     F \in {G \in SUBSET IntentFlags : Cardinality(G) <= MaxFlags}}
  \cup KeylessAnalyses

\* DataAgent._analyze_query: the analyses it can return for query.
AnalyzeQueryLlm(query) ==
  IF agent_llm
  THEN With(OriginalManufacturer(query), LAMBDA original_manufacturer :
         {ParsedAnalysis(answer, original_manufacturer) : answer \in LlmAnalyses})
       \cup {FailedAnalysis(query)}
  ELSE {BasicAnalysis(query)}

\* The value of result while no network exchange has ended.
NoResult == Failure(None)

NoMcp == [tool |-> NoTool, parameters |-> Params(None, None, None), confidence |-> 0]

Init ==
  /\ message \in Queries
  /\ registry_llm \in BOOLEAN
  /\ agent_llm \in BOOLEAN
  /\ pc = "process"
  /\ tier = 0
  /\ mcp_analysis = NoMcp
  /\ analysis = NoAnalysis
  /\ mcp_result = NoMcp
  /\ frame = NoFrame
  /\ client = NoClient
  /\ calls = <<>>
  /\ reply = NoReply
  /\ scores = <<>>
  /\ result = NoResult
  /\ NoTasks

\* process moves to configuration cfg.
Goto(cfg) ==
  /\ pc' = cfg.pc
  /\ frame' = cfg.frame
  /\ client' = cfg.client
  /\ reply' = cfg.reply

\* DataAgent.process, from its entry to its first await: analyze_query and
\* the branch to Tier 1 (_execute_mcp_tool) or Tier 2 (_analyze_query).
Branch(extractions) ==
  /\ pc = "process"
  /\ \E params \in extractions :
     \E tool_scores \in {ToolScores(message, params)} :
     \E mcp \in {BestTool(tool_scores, params)} :
       /\ scores' = tool_scores
       /\ mcp_analysis' = mcp
       /\ IF Tier1Fires(mcp)
          THEN tier' = 1 /\ \E cfg \in {ExecuteMcpTool(mcp)} : Goto(cfg)
          ELSE /\ tier' = 2
               /\ Goto([pc |-> "analyze", frame |-> NoFrame, client |-> NoClient,
                        reply |-> NoReply])
  /\ UNCHANGED <<message, registry_llm, agent_llm, analysis, mcp_result, calls, result>>
  /\ UNCHANGED aside

Process == Branch(ExtractParameters(message))

\* Tier 2 of process: _analyze_query has returned one of analyses; the
\* decision list runs up to the first client call.
Decide(analyses) ==
  /\ pc = "analyze"
  /\ \E a \in analyses :
       /\ analysis' = a
       /\ IF Reanalyzes(a)
          THEN \E params \in ExtractParameters(message) :
               \E again \in {AnalyzeQuery(message, params)} :
                 /\ mcp_result' = again
                 /\ \E cfg \in {Dispatch(message, a, again)} : Goto(cfg)
          ELSE /\ mcp_result' = mcp_result
               /\ \E cfg \in {Dispatch(message, a, mcp_result)} : Goto(cfg)
  /\ UNCHANGED <<message, registry_llm, agent_llm, tier, mcp_analysis, calls, scores,
                 result>>
  /\ UNCHANGED aside

Analyze == Decide(AnalyzeQueryLlm(message))

\* The validation call of a two-phase method completes.
ValidateResponds ==
  /\ pc = "validate"
  /\ \E out \in ValidateOutcomes :
       /\ calls' = Append(calls, ValidateCall(client, out))
       /\ IF ProceedsToFetch(client, out)
          THEN /\ pc' = "fetch"
               /\ client' = [client EXCEPT !.id = out.id]
               /\ UNCHANGED <<frame, reply, result>>
          ELSE \E res \in {MethodResult(client, NoFetchResult(client, out))} :
               \E cfg \in {Resume(frame, res)} :
                 result' = res /\ Goto(cfg)
  /\ UNCHANGED <<message, registry_llm, agent_llm, tier, mcp_analysis, analysis, mcp_result,
                 scores>>
  /\ UNCHANGED aside

\* The fetch call of a two-phase method completes.
FetchResponds ==
  /\ pc = "fetch"
  /\ \E out \in FetchOutcomes :
       /\ calls' = Append(calls,
            [Call(FetchEndpoint(Kernel(client.method)), Kernel(client.method),
                  None, None, None, FetchKey(client.id), out.kind = "ok", 0)
               EXCEPT !.outcome = out.kind])
       /\ \E res \in {MethodResult(client, FetchResult(client, out))} :
          \E cfg \in {Resume(frame, res)} :
            result' = res /\ Goto(cfg)
  /\ UNCHANGED <<message, registry_llm, agent_llm, tier, mcp_analysis, analysis, mcp_result,
                 scores>>
  /\ UNCHANGED aside

\* The GetPartDetailsBySearch call of search_parts completes.
SearchResponds ==
  /\ pc = "search"
  /\ \E out \in FetchOutcomes :
       /\ calls' = Append(calls,
            [Call("GetPartDetailsBySearch", "search_parts", client.mpn, None, None, 0,
                  out.kind = "ok", 0)
               EXCEPT !.outcome = out.kind])
       /\ \E res \in {SearchResult(client, out)} :
          \E cfg \in {Resume(frame, res)} :
            result' = res /\ Goto(cfg)
  /\ UNCHANGED <<message, registry_llm, agent_llm, tier, mcp_analysis, analysis, mcp_result,
                 scores>>
  /\ UNCHANGED aside

\* The GetAllEventsGrouped call of get_supply_chain_events completes.
EventsResponds ==
  /\ pc = "events"
  /\ \E out \in FetchOutcomes :
       /\ calls' = Append(calls,
            [Call("GetAllEventsGrouped", "get_supply_chain_events", None, None, None, 0,
                  out.kind = "ok", 0)
               EXCEPT !.outcome = out.kind])
       /\ \E res \in {EventsResult(out)} :
          \E cfg \in {Resume(frame, res)} :
            result' = res /\ Goto(cfg)
  /\ UNCHANGED <<message, registry_llm, agent_llm, tier, mcp_analysis, analysis, mcp_result,
                 scores>>
  /\ UNCHANGED aside

Next ==
  \/ Process
  \/ Analyze
  \/ ValidateResponds
  \/ FetchResponds
  \/ SearchResponds
  \/ EventsResponds

Spec == Init /\ [][Next]_vars

(***************************************************************************)
(* MCPRegistry.analyze_query on its own                                    *)
(***************************************************************************)
\* The queries analyze_query is scored on.
ScoreQueries ==
  Queries \cup {"find lm317 price stock",
                "search alternative for LM317",
                "toshiba company details lawsuit",
                "toshiba lawsuit",
                "search find lookup part number replacement for LM317"}

\* analyze_query is about to score message with the entities in
\* mcp_analysis.parameters: any entity record of the extractor.
ScoreInit ==
  /\ message \in ScoreQueries
  /\ registry_llm = FALSE
  /\ agent_llm = FALSE
  /\ pc = "score"
  /\ tier = 0
  /\ \E params \in LlmExtractions \cup {SimpleExtractionFallback(message)} :
       mcp_analysis = [NoMcp EXCEPT !.parameters = params]
  /\ analysis = NoAnalysis
  /\ mcp_result = NoMcp
  /\ frame = NoFrame
  /\ client = NoClient
  /\ calls = <<>>
  /\ reply = NoReply
  /\ scores = <<>>
  /\ result = NoResult
  /\ NoTasks

\* The loop of analyze_query runs over the catalog.
Score ==
  /\ pc = "score"
  /\ \E tool_scores \in {ToolScores(message, mcp_analysis.parameters)} :
       /\ scores' = tool_scores
       /\ mcp_analysis' = BestTool(tool_scores, mcp_analysis.parameters)
  /\ pc' = "scored"
  /\ UNCHANGED <<message, registry_llm, agent_llm, tier, analysis, mcp_result, frame,
                 client, calls, reply, result>>
  /\ UNCHANGED aside

ScoreSpec == ScoreInit /\ [][Score]_vars

(***************************************************************************)
(* The two-phase methods of Z2DataClient on their own                      *)
(***************************************************************************)
\* The arguments the two-phase methods are called with.
PartNumbers == {"LM317", "BAV99"}

Manufacturers == {None, "TI"}

CompanyNames == {"Toshiba", "Vishay"}

\* A caller other than DataAgent has called a two-phase method of
\* Z2DataClient, which awaits its validation call.
ClientInit ==
  /\ message = None
  /\ registry_llm = FALSE
  /\ agent_llm = FALSE
  /\ tier = 0
  /\ mcp_analysis = NoMcp
  /\ analysis = NoAnalysis
  /\ mcp_result = NoMcp
  /\ frame = NoFrame
  /\ \E c \in {ClientCall(method, mpn, man) :
                  method \in PartMethods, mpn \in PartNumbers, man \in Manufacturers}
             \cup {ClientCall(method, company, None) :
                     method \in CompanyMethods, company \in CompanyNames} :
       pc = c.pc /\ client = c.client
  /\ calls = <<>>
  /\ reply = NoReply
  /\ scores = <<>>
  /\ result = NoResult
  /\ NoTasks

ClientNext ==
  \/ ValidateResponds
  \/ FetchResponds

ClientSpec == ClientInit /\ [][ClientNext]_vars

(***************************************************************************)
(* process when the language models are absent or fail                     *)
(***************************************************************************)
\* analyze_query when the extraction LLM is absent, raises or answers what
\* is not a JSON object: _extract_parameters returns the fallback.
DegradedProcess == Branch({SimpleExtractionFallback(message)})

\* _analyze_query when the analysis LLM is absent (agent_llm false), or
\* raises or answers what is not JSON (agent_llm true).
DegradedAnalyze ==
  Decide({IF agent_llm THEN FailedAnalysis(message) ELSE BasicAnalysis(message)})

DegradedNext ==
  \/ DegradedProcess
  \/ DegradedAnalyze
  \/ ValidateResponds
  \/ FetchResponds
  \/ SearchResponds
  \/ EventsResponds

DegradedSpec == Init /\ [][DegradedNext]_vars

(***************************************************************************)
(* The decision list of Tier 2 for every combination of intent keys        *)
(***************************************************************************)
\* Queries that process takes to Tier 2 when the registry runs without its
\* language model.
RouterQueries ==
  {"lm317", "cross references for LM317", "toshiba legal business", "BAV99 by EVVO Semi",
   "what parts are there", "what parts are there?", " what parts are there "}

\* The answers of the analysis LLM with any number of intent keys set.
RouterAnalyses(query) ==
  With(OriginalManufacturer(query), LAMBDA original_manufacturer :
    {ParsedAnalysis(Analysis(p, m, c, None, h, F), original_manufacturer) :
       p \in LlmParts, m \in {None, "TI"}, c \in LlmCompanies, h \in BOOLEAN,
       F \in SUBSET IntentFlags})

\* process has taken the Tier 2 branch and awaits _analyze_query.
RouterInit ==
  /\ message \in RouterQueries
  /\ registry_llm = FALSE
  /\ agent_llm = TRUE
  /\ pc = "analyze"
  /\ tier = 2
  /\ \E params \in {SimpleExtractionFallback(message)} :
     \E tool_scores \in {ToolScores(message, params)} :
     \E mcp \in {BestTool(tool_scores, params)} :
       /\ ~Tier1Fires(mcp)
       /\ scores = tool_scores
       /\ mcp_analysis = mcp
  /\ analysis = NoAnalysis
  /\ mcp_result = NoMcp
  /\ frame = NoFrame
  /\ client = NoClient
  /\ calls = <<>>
  /\ reply = NoReply
  /\ result = NoResult
  /\ NoTasks

\* _analyze_query returns a parsed answer and the decision list runs.
Classify == Decide(RouterAnalyses(message))

RouterSpec == RouterInit /\ [][Classify]_vars

(***************************************************************************)
(* Several calls of process running concurrently on one DataAgent          *)
(***************************************************************************)
\* DataAgent.__init__ creates one Z2DataClient and one MCPRegistry; neither
\* the agent nor the client assigns an attribute after construction, and
\* every identifier a validation returns is a local of the coroutine of
\* the client method.  A task is one running call of process, which gives up
\* control only at its awaits: the network calls.
NumTasks == 2

Tasks == 1..NumTasks

\* The queries processed concurrently; the registry and the agent run
\* without their language models.
ConcurrentQueries == {"LM317 by TI", "toshiba litigations", "lm317"}

\* A task: the query of one call of process, its position, frame and client
\* call, its reply and the last result of a client method.
Task(query, cfg, res) == [query |-> query, pc |-> cfg.pc, frame |-> cfg.frame, client |-> cfg.client, reply |-> cfg.reply, result |-> res]

\* process(query) up to its first network call.
StartOf(query) == With(AnalyzeQuery(query, SimpleExtractionFallback(query)), LAMBDA mcp : Task(query, IF Tier1Fires(mcp) THEN ExecuteMcpTool(mcp) ELSE Dispatch(query, BasicAnalysis(query), mcp), NoResult))

\* Every concurrent query at its first network call.
Starts == [query \in ConcurrentQueries |-> StartOf(query)]

\* The client method of a task returns res to the agent operation.
Settle(task, res) == With(Resume(task.frame, res), LAMBDA cfg : Task(task.query, cfg, res))

\* The key shared by every task: the identifier of the last successful
\* validation of the log, whichever task made it.
TaskFetchKeyShared(l, t, id) == LET ok == {i \in 1..Len(l) : l[i].call.ok /\ l[i].call.id > 0} IN IF ok = {} THEN id ELSE l[CHOOSE i \in ok : \A j \in ok : j <= i].call.id

\* The key of the fetch call of task t: the identifier its own coroutine
\* holds, whatever the other tasks have logged in l.
TaskFetchKey(l, t, id) == FetchKey(id)

\* The network call that completes for a task with outcome out.
TaskCall(l, t, task, out) ==
  CASE task.pc = "validate" -> ValidateCall(task.client, out)
    [] task.pc = "fetch" ->
         [Call(FetchEndpoint(Kernel(task.client.method)), Kernel(task.client.method),
               None, None, None, TaskFetchKey(l, t, task.client.id), out.kind = "ok", 0)
            EXCEPT !.outcome = out.kind]
    [] OTHER ->
         [Call("GetPartDetailsBySearch", "search_parts", task.client.mpn, None, None, 0,
               out.kind = "ok", 0)
            EXCEPT !.outcome = out.kind]

\* The task after its awaited network call completed with outcome out.
TaskAfter(task, out) ==
  CASE task.pc = "validate" ->
         IF ProceedsToFetch(task.client, out)
         THEN [task EXCEPT !.pc = "fetch", !.client.id = out.id]
         ELSE Settle(task, MethodResult(task.client, NoFetchResult(task.client, out)))
    [] task.pc = "fetch" ->
         Settle(task, MethodResult(task.client, FetchResult(task.client, out)))
    [] OTHER -> Settle(task, SearchResult(task.client, out))

\* Two or more calls of process were started on the same agent and each
\* awaits its first network call.
ConcurrentInit ==
  /\ message = None
  /\ registry_llm = FALSE
  /\ agent_llm = FALSE
  /\ pc = "concurrent"
  /\ tier = 0
  /\ mcp_analysis = NoMcp
  /\ analysis = NoAnalysis
  /\ mcp_result = NoMcp
  /\ frame = NoFrame
  /\ client = NoClient
  /\ calls = <<>>
  /\ reply = NoReply
  /\ scores = <<>>
  /\ result = NoResult
  /\ tasks \in [Tasks -> {Starts[query] : query \in ConcurrentQueries}]
  /\ log = <<>>
  /\ NoFormat

\* The network call task t awaits at position at completes.
TaskResponds(t, at, outcomes) ==
  /\ tasks[t].pc = at
  /\ \E out \in outcomes :
       /\ log' = Append(log, [task |-> t, call |-> TaskCall(log, t, tasks[t], out), out |-> out])
       /\ \E after \in {TaskAfter(tasks[t], out)} :
            tasks' = [tasks EXCEPT ![t] = after]
  /\ UNCHANGED <<message, registry_llm, agent_llm, pc, tier, mcp_analysis, analysis,
                 mcp_result, frame, client, calls, reply, scores, result, payload, table>>

\* What the network answers to concurrent tasks: every identifier, one
\* failure of each call and one successful payload.  The other failures
\* differ from these in the text of the error only.
TaskValidateOutcomes == {out \in ValidateOutcomes : out.kind \in {"result", "empty"}}

TaskFetchOutcomes == {out \in FetchOutcomes : out.kind = "http_error" \/ (out.kind = "ok" /\ out.rows = MaxRows)}

\* The validation call of some task completes.
TaskValidateResponds == \E t \in Tasks : TaskResponds(t, "validate", TaskValidateOutcomes)

\* The fetch call of some task completes.
TaskFetchResponds == \E t \in Tasks : TaskResponds(t, "fetch", TaskFetchOutcomes)

\* The search call of some task completes.
TaskSearchResponds == \E t \in Tasks : TaskResponds(t, "search", TaskFetchOutcomes)

ConcurrentNext ==
  \/ TaskValidateResponds
  \/ TaskFetchResponds
  \/ TaskSearchResponds

ConcurrentSpec == ConcurrentInit /\ [][ConcurrentNext]_vars

(***************************************************************************)
(* The table formatters of DataAgent on the records of their payload       *)
(***************************************************************************)
\* The most records a payload holds in the model.
MaxRecords == 2

\* The values of the fields of a record.
FieldValues == {"A", "B"}

\* The records with some of the keys of keys: a dict with a value under each
\* key it has.
Records(keys) == UNION {[present -> FieldValues] : present \in SUBSET keys}

\* The lists of at most MaxRecords records of records.
Lists(records) == UNION {[1..n -> records] : n \in 0..MaxRecords}

\* record.get(key, default)
Get(record, key, default) == IF key \in DOMAIN record THEN record[key] ELSE default

\* Two keys of a lawsuit record of the API (the code names none: it passes
\* the records on as they are).
LawsuitKeys == {"caseTitle", "filingDate"}

\* The results of get_company_litigations that succeeded.  kind tells what
\* "results" of the API was: "none" (absent, None or empty), "list" (a list of
\* records, not empty), "lawsuits" (a dict with the list under 'Lawsuits'),
\* "other" (a dict, not empty, without 'Lawsuits').
LitigationResults ==
  {[type |-> "company_litigations", success |-> TRUE, company_name |-> company,
    part_number |-> None, error |-> None,
    data |-> [kind |-> kind, main |-> <<>>, records |-> records]] :
     company \in {"Toshiba"},
     kind \in {"none", "list", "lawsuits", "other"},
     records \in Lists(Records(LawsuitKeys))}

\* The payloads a client method can return: a list that is not empty for
\* kind "list", and no list for kinds "none" and "other".
WellFormed(res) ==
  /\ res.data.kind = "list" => res.data.records # <<>>
  /\ res.data.kind \in {"none", "other"} => res.data.records = <<>>

\* DataAgent._format_litigation_response on the records of res.
LitigationTable(res) ==
  LET company_name == IF Truthy(res.company_name) THEN res.company_name ELSE "Unknown"
      lawsuits == IF res.data.kind \in {"list", "lawsuits"} THEN res.data.records
                  ELSE <<>>
  IN IF res.data.kind = "none"
     THEN [type |-> "table", title |-> "No litigation records found for " \o company_name,
           content |-> None, data |-> <<>>]
     ELSE [type |-> "table", title |-> "Litigation History for " \o company_name,
           content |-> None, data |-> lawsuits]

\* The keys of a row of the cross-reference table.
CrossColumns ==
  {"partNumber", "companyName", "partLifecycle", "roHsFlag", "dataSheet", "package",
   "partDescription", "crossType", "crossComment"}

\* The keys a part of the cross-reference payload has or lacks in the model;
\* the other keys of CrossColumns are absent from every part.
CrossKeys == {"partNumber", "crossType"}

\* The results of get_cross_references: a failure, or a success whose data
\* is empty (kind "none") or is the reference part (main) with its crosses
\* (records) under crossesDetails.
CrossReferenceResults ==
  {[type |-> "cross_references", success |-> success, company_name |-> None,
    part_number |-> "LM317",
    error |-> IF success THEN None ELSE "Part 'LM317' not found in Z2Data database",
    data |-> [kind |-> kind, main |-> main, records |-> records]] :
     success \in BOOLEAN, kind \in {"none", "other"},
     main \in Records({"partNumber"}), records \in Lists(Records(CrossKeys))}

\* The payloads get_cross_references can return.
WellFormedCross(res) ==
  /\ ~res.success => res.data.kind = "none"
  /\ res.data.kind = "none" => res.data.main = <<>> /\ res.data.records = <<>>

\* The row of the table for a cross.
CrossRow(cross) == [key \in CrossColumns |-> Get(cross, key, "")]

\* The row of the table for the reference part.
MainRow(main) ==
  [key \in CrossColumns |->
     CASE key = "crossType" -> "ORIGINAL PART"
       [] key = "crossComment" -> "Reference part for cross comparison"
       [] OTHER -> Get(main, key, "")]

\* A variant of CrossRows that leaves out the last cross.
CrossRowsButLast(crosses) == [i \in 1..(Len(crosses) - 1) |-> CrossRow(crosses[i])]

\* "for cross in crosses: table_data.append({...})"
CrossRows(crosses) == [i \in 1..Len(crosses) |-> CrossRow(crosses[i])]

\* DataAgent._format_cross_reference_response on the records of res.
CrossReferenceTable(res) ==
  IF ~res.success
  THEN [type |-> "error", title |-> None, content |-> res.error, data |-> <<>>]
  ELSE IF res.data.kind = "none"
  THEN [type |-> "text", title |-> None,
        content |-> "No cross references found for " \o res.part_number, data |-> <<>>]
  ELSE [type |-> "table",
        title |-> "Cross References for " \o Get(res.data.main, "partNumber", ""),
        content |-> None,
        data |-> <<MainRow(res.data.main)>> \o CrossRows(res.data.records)]

\* A formatter is about to be called with the result of its client method.
FormatInit ==
  /\ message = None
  /\ registry_llm = FALSE
  /\ agent_llm = FALSE
  /\ pc = "format"
  /\ tier = 0
  /\ mcp_analysis = NoMcp
  /\ analysis = NoAnalysis
  /\ mcp_result = NoMcp
  /\ frame = NoFrame
  /\ client = NoClient
  /\ calls = <<>>
  /\ reply = NoReply
  /\ scores = <<>>
  /\ result = NoResult
  /\ tasks = <<>>
  /\ log = <<>>
  /\ payload \in {r \in LitigationResults : WellFormed(r)}
                  \cup {r \in CrossReferenceResults : WellFormedCross(r)}
  /\ table = NoTable

\* A formatter returns.
Format(type, table_of) ==
  /\ pc = "format"
  /\ payload.type = type
  /\ table' = table_of
  /\ pc' = "formatted"
  /\ UNCHANGED <<message, registry_llm, agent_llm, tier, mcp_analysis, analysis,
                 mcp_result, frame, client, calls, reply, scores, result, tasks, log,
                 payload>>

\* _format_litigation_response returns.
FormatLitigation == Format("company_litigations", LitigationTable(payload))

\* _format_cross_reference_response returns.
FormatCrossReference == Format("cross_references", CrossReferenceTable(payload))

FormatNext ==
  \/ FormatLitigation
  \/ FormatCrossReference

FormatSpec == FormatInit /\ [][FormatNext]_vars

(***************************************************************************)
(* Properties                                                              *)
(***************************************************************************)
\* process has branched to Tier 1 or Tier 2.
Branched == tier # 0

\* A network call was made or is awaited: an operation was dispatched to
\* the API client.
Dispatched == pc \in {"validate", "fetch", "search", "events"} \/ calls # <<>>

\* The largest score of the loop of analyze_query.
MaxScore == CHOOSE m \in {scores[i] : i \in 1..Len(scores)} \cup {0} :
              \A i \in 1..Len(scores) : scores[i] <= m

\* C1: process takes Tier 1, and executes the winning tool of the scorer
\* directly, exactly when analyze_query returned a tool with a confidence
\* strictly above 2.0; with a top score of exactly 2.0 it takes Tier 2.
C1_Tier1IffAboveThreshold ==
  Branched =>
    /\ tier = 1 <=> (mcp_analysis.tool # NoTool /\ mcp_analysis.confidence > 2)
    /\ tier = 1 => /\ frame.via_mcp
                   /\ frame.api_method = mcp_analysis.tool.api_method
                   /\ analysis = NoAnalysis
    /\ (tier = 2 /\ pc = "analyze") => frame = NoFrame /\ calls = <<>>

\* C1: a query whose top score is exactly 2.0 went to Tier 2.
C1_Witness ==
  /\ tier = 2
  /\ mcp_analysis.tool # NoTool
  /\ mcp_analysis.confidence = 2
  /\ pc = "done"

\* A required slot of tool is empty in params.
Unfilled(tool, params) ==
  \E i \in 1..Len(tool.requires) : ~Truthy(params[tool.requires[i]])

\* A required slot of tool is empty in params, where the company slot counts
\* as filled when a manufacturer is present.
UnfilledButForManufacturer(tool, params) ==
  \E i \in 1..Len(tool.requires) :
    /\ ~Truthy(params[tool.requires[i]])
    /\ ~(tool.requires[i] = "company" /\ Truthy(params.manufacturer))

\* C2 as stated: a tool with an empty required slot scores exactly 0 and is
\* never the tool analyze_query returns.
C2_UnfilledScoresZero ==
  pc = "scored" =>
    \A i \in 1..Len(Tools) :
      Unfilled(Tools[i], mcp_analysis.parameters) =>
        scores[i] = 0 /\ mcp_analysis.tool # Tools[i]

\* C2: a tool with an empty required slot, the company slot counting as
\* filled when a manufacturer is present, scores exactly 0 whatever keywords
\* and bonus phrases match, and is never the tool analyze_query returns.
C2_GatedScoresZero ==
  pc = "scored" =>
    \A i \in 1..Len(Tools) :
      UnfilledButForManufacturer(Tools[i], mcp_analysis.parameters) =>
        scores[i] = 0 /\ mcp_analysis.tool # Tools[i]

\* C2: a tool whose keywords match is gated to 0 while another tool wins.
C2_Witness ==
  /\ pc = "scored"
  /\ mcp_analysis.tool # NoTool
  /\ \E i \in 1..Len(Tools) :
       /\ UnfilledButForManufacturer(Tools[i], mcp_analysis.parameters)
       /\ KeywordScore(Tools[i], Lower(message)) > 0
       /\ scores[i] = 0

\* C3: for a tool that requires the company slot, with no company but a
\* manufacturer the score is the one it gets with the company slot filled,
\* and with neither the score is 0.
C3_ManufacturerFillsCompany ==
  pc = "scored" =>
    \A i \in 1..Len(Tools) :
      (\E k \in 1..Len(Tools[i].requires) : Tools[i].requires[k] = "company") =>
        LET params == mcp_analysis.parameters IN
        /\ (~Truthy(params.company) /\ Truthy(params.manufacturer)) =>
             scores[i] = KeywordScore(Tools[i], Lower(message))
                         + PatternBonus(Tools[i], Lower(message),
                                        [params EXCEPT !.company = "Toshiba"])
        /\ (~Truthy(params.company) /\ ~Truthy(params.manufacturer)) => scores[i] = 0

\* C3: a tool that requires a company scored above 0 with no company and a
\* manufacturer.
C3_Witness ==
  /\ pc = "scored"
  /\ ~Truthy(mcp_analysis.parameters.company)
  /\ Truthy(mcp_analysis.parameters.manufacturer)
  /\ \E i \in 1..Len(Tools) :
       /\ Tools[i].requires = <<"company">>
       /\ scores[i] > 0

\* C4: analyze_query returns the tool with the largest score, and that
\* score; of several tools with the largest score it returns the first in
\* catalog order.
C4_FirstMaximumWins ==
  (pc = "scored" /\ MaxScore > 0) =>
    /\ mcp_analysis.confidence = MaxScore
    /\ \E i \in 1..Len(Tools) :
         /\ mcp_analysis.tool = Tools[i]
         /\ scores[i] = MaxScore
         /\ \A j \in 1..(i - 1) : scores[j] < MaxScore

\* C4: two tools share the largest score.
C4_Witness ==
  /\ pc = "scored"
  /\ MaxScore > 0
  /\ \E i, j \in 1..Len(Tools) :
       i < j /\ scores[i] = MaxScore /\ scores[j] = MaxScore /\ mcp_analysis.tool = Tools[i]

\* C5: when no tool scores above 0, analyze_query returns no tool with
\* confidence 0 and process does not take Tier 1.
C5_NoToolAboveZero ==
  (Branched /\ \A i \in 1..Len(scores) : scores[i] <= 0) =>
    /\ mcp_analysis.tool = NoTool
    /\ mcp_analysis.confidence = 0
    /\ tier = 2
    /\ pc = "analyze" => calls = <<>>

\* C5: a query no tool scored above 0 for was answered by Tier 2.
C5_Witness ==
  /\ pc = "done"
  /\ tier = 2
  /\ mcp_analysis.tool = NoTool
  /\ \A i \in 1..Len(scores) : scores[i] = 0

\* The operation DataAgent awaits is one that requires a manufacturer: the
\* part-detail or the cross-reference operation.
RequiresManufacturer(f) ==
  f.agent_method = "_get_part_details" \/ f.api_method = "get_cross_references"

\* C6 as stated: when the entities extracted for the query hold a part
\* number and neither manufacturer nor company, has_manufacturer is false
\* and no operation that requires a manufacturer is dispatched.
C6_BarePartNeverNeedsManufacturer ==
  (/\ Branched
   /\ Truthy(mcp_analysis.parameters.part_number)
   /\ ~Truthy(mcp_analysis.parameters.manufacturer)
   /\ ~Truthy(mcp_analysis.parameters.company)) =>
    /\ ~analysis.has_manufacturer
    /\ ~(Dispatched /\ RequiresManufacturer(frame))

\* C6: an operation that requires a manufacturer is dispatched through the
\* scorer only when the entities of that scorer call hold a manufacturer, and
\* by the decision list of Tier 2 only when has_manufacturer is true; without
\* a classifier has_manufacturer is true exactly when the analysis holds a
\* manufacturer.
C6_ManufacturerRequired ==
  /\ (Dispatched /\ RequiresManufacturer(frame)) =>
       IF frame.via_mcp
       THEN Truthy((IF tier = 1 THEN mcp_analysis ELSE mcp_result).parameters.manufacturer)
       ELSE tier = 2 /\ analysis.has_manufacturer /\ Truthy(analysis.part_number)
  /\ (tier = 2 /\ pc # "analyze" /\ ~agent_llm) =>
       (analysis.has_manufacturer <=> Truthy(analysis.manufacturer))

\* C6: Tier 2 dispatched the part-detail operation for a query whose scorer
\* entities hold a part number and no manufacturer.
C6_Witness ==
  /\ tier = 2
  /\ Dispatched
  /\ frame.agent_method = "_get_part_details"
  /\ ~frame.via_mcp
  /\ Truthy(mcp_analysis.parameters.part_number)
  /\ ~Truthy(mcp_analysis.parameters.manufacturer)
  /\ analysis.has_manufacturer

\* The text the user typed after " by " in query.
TypedAfterBy(query) == Strip(From(query, Find(query, " by ") + Len(" by ")))

\* C7: for a query with a "<part> by <X>" clause, the analysis carries
\* original_manufacturer equal to X as typed, whatever the classifier
\* returned.
C7_OriginalManufacturerVerbatim ==
  (tier = 2 /\ pc # "analyze" /\ Find(message, " by ") > 0) =>
    analysis.original_manufacturer = TypedAfterBy(message)

\* The validation calls among the network calls made so far.
Validations == {i \in 1..Len(calls) : calls[i].endpoint = "GetValidationPart"}

\* C8: a part-detail lookup whose first validation found no match, with an
\* original_manufacturer that differs from the chosen manufacturer, makes
\* exactly one more validation call, with original_manufacturer, before it
\* reports failure.
C8_OneRetryWithOriginal ==
  (/\ pc = "done"
   /\ frame.agent_method = "_get_part_details"
   /\ Len(calls) >= 1
   /\ calls[1].endpoint = "GetValidationPart"
   /\ calls[1].outcome \in {"empty", "result"}
   /\ ~calls[1].ok
   /\ Truthy(frame.original_manufacturer)
   /\ frame.original_manufacturer # frame.manufacturer) =>
    /\ Cardinality(Validations) = 2
    /\ calls[2].endpoint = "GetValidationPart"
    /\ calls[2].man = frame.original_manufacturer

\* Calls i and j went to the same endpoint with the same arguments.
SameCall(i, j) ==
  /\ calls[i].endpoint = calls[j].endpoint
  /\ calls[i].mpn = calls[j].mpn
  /\ calls[i].man = calls[j].man
  /\ calls[i].company = calls[j].company
  /\ calls[i].key = calls[j].key

\* C9: no network call is made twice with the same arguments for one query,
\* and a call that follows a failed one is the validation of the manufacturer
\* fallback.
C9_NoRepeatedCall ==
  \A i, j \in 1..Len(calls) :
    i < j => /\ ~SameCall(i, j)
             /\ (~calls[i].ok /\ j = i + 1) =>
                  /\ calls[j].endpoint = "GetValidationPart"
                  /\ calls[j].man = frame.original_manufacturer

\* The validation endpoints of Z2DataClient.
ValidationEndpoints == {"GetValidationPart", "CompanyValidation"}

\* C10: a two-phase method makes its fetch call only after its own
\* validation call returned a match with an identifier, keys the fetch by
\* that identifier, and after a failed validation makes no fetch call and
\* returns the failure.
C10_FetchAfterValidation ==
  /\ \A j \in 1..Len(calls) :
       calls[j].endpoint \notin ValidationEndpoints =>
         /\ j = 2
         /\ calls[1].endpoint \in ValidationEndpoints
         /\ calls[1].method = calls[2].method
         /\ calls[2].endpoint = FetchEndpoint(calls[1].method)
         /\ calls[1].ok
         /\ calls[1].id > 0
         /\ calls[2].key = calls[1].id
  /\ (Len(calls) >= 1 /\ ~(calls[1].ok /\ calls[1].id > 0)) =>
       /\ Len(calls) = 1
       /\ pc = "done"
       /\ result.success = "False"
       /\ Truthy(result.error)
       /\ calls[1].outcome = "http_error" => result.error = ApiErrorText
       /\ calls[1].outcome = "timeout" => result.error = TimeoutText

\* C10: a fetch keyed by the largest identifier of the model has completed.
C10_Witness ==
  /\ pc = "done"
  /\ Len(calls) = 2
  /\ calls[1].id = MaxId
  /\ calls[2].key = MaxId
  /\ calls[1].method = "get_company_supply_chain"

\* The entries of the log made by task t.
LogOf(t) == SelectSeq(log, LAMBDA e : e.task = t)

\* What a call of process becomes when it runs alone and its network calls
\* are answered by the entries es.
RECURSIVE Alone(_, _)
Alone(task, es) == IF es = <<>> THEN task ELSE Alone(TaskAfter(task, Head(es).out), Tail(es))

\* The entry of the log before entry i that task log[i].task made last, or 0.
Preceding(i) == LET own == {j \in 1..(i - 1) : log[j].task = log[i].task} IN IF own = {} THEN 0 ELSE CHOOSE j \in own : \A k \in own : k <= j

\* C11: with several queries processed concurrently, in any interleaving of
\* their network calls, every fetch call is keyed by the identifier that the
\* validation call of the same query returned just before it, and every
\* query stands where it would stand, with the reply it would have, had it
\* been processed alone with the same answers of the network.
C11_TasksDoNotInterfere ==
  /\ \A i \in 1..Len(log) :
       log[i].call.endpoint \notin ValidationEndpoints \cup {"GetPartDetailsBySearch"} =>
         /\ Preceding(i) # 0
         /\ log[Preceding(i)].call.endpoint \in ValidationEndpoints
         /\ log[Preceding(i)].call.ok
         /\ log[Preceding(i)].call.id > 0
         /\ log[i].call.key = log[Preceding(i)].call.id
  /\ \A t \in Tasks : tasks[t] = Alone(Starts[tasks[t].query], LogOf(t))

\* Two queries validated one after the other, got different identifiers,
\* then fetched in the same order, and both were answered.
C11_Witness ==
  /\ Len(log) = 4
  /\ log[1].task = 1 /\ log[2].task = 2 /\ log[3].task = 1 /\ log[4].task = 2
  /\ log[1].call.id = 1
  /\ log[2].call.id = 2
  /\ log[3].call.key = 1
  /\ log[4].call.key = 2
  /\ \A t \in Tasks : tasks[t].pc = "done" /\ tasks[t].reply.success = TRUE

\* The reply is a message that mentions the manufacturer.
AsksForManufacturer ==
  /\ reply.response.content # None
  /\ Contains(Lower(reply.response.content), "manufacturer")

\* C12: a query with cross-reference phrasing that names a part number and
\* no manufacturer, for which neither language model supplies one, makes no
\* network call and is answered by a message asking for the manufacturer.
C12_CrossReferenceAsksManufacturer ==
  (/\ message = "cross references for LM317"
   /\ Branched
   /\ ~Truthy(mcp_analysis.parameters.manufacturer)
   /\ analysis.has_manufacturer # TRUE) =>
    /\ ~Dispatched
    /\ pc = "done" => AsksForManufacturer

\* The conditions of the routing rules in their documented order: market,
\* litigation, company detail, BOM, cross-reference, enrichment, part with
\* manufacturer, part alone or search, default.
Conditions ==
  <<"is_market_query" \in analysis.flags,
    "is_litigation_query" \in analysis.flags,
    "is_company_query" \in analysis.flags,
    "is_bom_query" \in analysis.flags,
    "is_cross_reference_query" \in analysis.flags,
    "is_enrichment_query" \in analysis.flags,
    analysis.has_manufacturer /\ Truthy(analysis.part_number),
    Truthy(analysis.part_number) \/ "is_part_search" \in analysis.flags,
    TRUE>>

\* The first rule whose condition holds.
FirstRule == CHOOSE i \in 1..9 : Conditions[i] /\ \A j \in 1..(i - 1) : ~Conditions[j]

\* The text of the reply, "" when the reply has none.
ReplyText == IF reply.response.content = None THEN "" ELSE reply.response.content

\* What is seen of the operation the decision list chose: the method of
\* DataAgent that was entered, or the message returned without one.
Ran(rule) ==
  CASE rule = 1 -> frame.agent_method \in {"_get_market_availability", "_get_market_data"}
    [] rule = 2 -> \/ frame.agent_method = "_get_company_litigations"
                   \/ ReplyText = "Please specify a company name for litigation search"
    [] rule = 3 -> \/ frame.agent_method = "_get_company_details"
                   \/ ReplyText = "Please specify a company name"
    [] rule = 4 -> StartsAt(ReplyText, 1, "BOM analysis functionality")
    [] rule = 5 -> \/ StartsAt(ReplyText, 1, "To get cross references for")
                   \/ ReplyText = "Could not find appropriate tool for cross references"
                   \/ mcp_result.tool # NoTool
    [] rule = 6 -> ReplyText = "Please upload a file to enrich the data."
    [] rule = 7 -> frame.agent_method = "_get_part_details" /\ mcp_result.tool = NoTool
    [] rule = 8 -> frame.agent_method = "_search_parts" /\ mcp_result.tool = NoTool
    [] OTHER -> \/ frame.agent_method = "_search_parts" /\ mcp_result.tool = NoTool
                \/ StartsAt(ReplyText, 1, "Processing data query: ")

\* C13: in Tier 2 the operation that runs is the one of the first rule, in
\* the order market, litigation, company detail, BOM, cross-reference,
\* enrichment, part with manufacturer, part alone or search, default, whose
\* condition holds, and the operation of no other rule runs.
C13_FirstRuleDecides ==
  (tier = 2 /\ pc # "analyze") =>
    /\ Ran(FirstRule)
    /\ \A rule \in 1..8 : rule # FirstRule /\ {rule, FirstRule} # {8, 9} => ~Ran(rule)

\* An analysis with the market and the litigation keys set, and with a
\* company, was dispatched to the market operation.
C13_Witness ==
  /\ tier = 2
  /\ pc # "analyze"
  /\ {"is_market_query", "is_litigation_query"} \subseteq analysis.flags
  /\ Truthy(analysis.company_name)
  /\ frame.agent_method = "_get_market_availability"

\* C14: in Tier 2, when the litigation rule (or the company-detail rule) is
\* the one selected and the analysis has neither company_name nor
\* manufacturer, the reply is the error message asking for a company and no
\* network call is made or awaited; otherwise the litigation (company
\* detail) operation is entered with company_name if there is one, else
\* with manufacturer.
C14_CompanyOrManufacturer ==
  (tier = 2 /\ pc # "analyze" /\ FirstRule \in {2, 3}) =>
    IF ~Truthy(analysis.company_name) /\ ~Truthy(analysis.manufacturer)
    THEN /\ pc = "done"
         /\ ~Dispatched
         /\ reply.response.type = "error"
         /\ ReplyText = (IF FirstRule = 2
                         THEN "Please specify a company name for litigation search"
                         ELSE "Please specify a company name")
    ELSE /\ pc = "validate"
         /\ frame.agent_method = (IF FirstRule = 2 THEN "_get_company_litigations"
                                  ELSE "_get_company_details")
         /\ client.method = (IF FirstRule = 2 THEN "get_company_litigations"
                             ELSE "get_company_details")
         /\ client.company = (IF Truthy(analysis.company_name) THEN analysis.company_name
                              ELSE analysis.manufacturer)

\* A litigation analysis with a company and a manufacturer was dispatched
\* to the litigation operation for the company.
C14_Witness ==
  /\ tier = 2
  /\ FirstRule = 2
  /\ analysis.company_name = "Toshiba"
  /\ analysis.manufacturer = "TI"
  /\ pc = "validate"
  /\ client.method = "get_company_litigations"
  /\ client.company = "Toshiba"

\* C15: whenever process has returned, for any query, any answer or failure
\* of the two language models, any tool the scorer dispatched and any
\* outcome of the network calls, what it returned is a dict with the keys
\* response and agent_type; no exception has left process.
C15_AlwaysReplies ==
  pc = "done" =>
    /\ {"response", "agent_type"} \subseteq DOMAIN reply
    /\ reply.agent_type = "data"

\* The classifier's answer had no "manufacturer" key, the subscript of rule
\* 7 raised KeyError, and process returned the dict of its except clause.
C15_Witness ==
  /\ pc = "done"
  /\ "manufacturer" \in analysis.absent
  /\ reply.success = FALSE
  /\ reply.error = "'manufacturer'"
  /\ StartsAt(reply.response.content, 1, "Error processing data request: ")

\* C16: when process has returned after a client method reported a failure
\* (no match, missing identifier, non-2xx status, timeout), the response is
\* not empty, and in a Tier 2 litigation, company-detail or part-detail
\* lookup it contains the error text of the client.
C16_FailureExplained ==
  (pc = "done" /\ calls # <<>> /\ result.success = "False") =>
    /\ ReplyText # ""
    /\ (/\ tier = 2
        /\ frame.agent_method \in {"_get_company_litigations", "_get_company_details",
                                    "_get_part_details"}
        /\ Truthy(result.error)) => Contains(ReplyText, result.error)

\* C17: when process has returned after get_company_litigations succeeded
\* with no records for a company, in either tier, the response is a table
\* with no rows whose title is "No litigation records found for " followed
\* by the company.
C17_NoLitigationTable ==
  (/\ pc = "done"
   /\ result.type = "company_litigations"
   /\ result.success = "True"
   /\ result.rows = 0) =>
    /\ reply.response.type = "table"
    /\ reply.response.rows = 0
    /\ reply.response.title = "No litigation records found for " \o result.company_name

\* A formatter returned a table.
Tabled == pc = "formatted" /\ table.type = "table"

\* The list of records of the payload: the lawsuits, or the crosses.
PayloadRecords ==
  IF payload.type = "company_litigations" /\ payload.data.kind \notin {"list", "lawsuits"}
  THEN <<>>
  ELSE payload.data.records

\* C18 as stated: every table built from a list of records has exactly as
\* many rows as the payload has records.
C18_RowsEqualRecords == Tabled => Len(table.data) = Len(PayloadRecords)

\* C18: a litigation table has the lawsuit records of the payload as its
\* rows, none dropped and none added; a cross-reference table has one row
\* for the reference part of the payload, marked ORIGINAL PART, followed by
\* one row for every cross of the payload, in the order of the payload.
C18_RowsFollowRecords ==
  Tabled =>
    IF payload.type = "company_litigations"
    THEN table.data = PayloadRecords
    ELSE /\ Len(table.data) = 1 + Len(PayloadRecords)
         /\ table.data[1].crossType = "ORIGINAL PART"
         /\ table.data[1].partNumber = Get(payload.data.main, "partNumber", "")
         /\ \A i \in 1..Len(PayloadRecords) :
              \A key \in DOMAIN PayloadRecords[i] :
                table.data[i + 1][key] = PayloadRecords[i][key]

\* A payload with MaxRecords crosses was formatted as a table that has one
\* row more.
C18_Witness ==
  /\ Tabled
  /\ payload.type = "cross_references"
  /\ Len(PayloadRecords) = MaxRecords
  /\ Len(table.data) = MaxRecords + 1

\* C19: in every table all rows have the same set of keys, so that a field
\* a record lacks appears under its key with a placeholder.
C19_SameColumns ==
  Tabled => \A i, j \in 1..Len(table.data) : DOMAIN table.data[i] = DOMAIN table.data[j]

\* C20: for "DigiKey stock for LM317", with no manufacturer extracted, the
\* Digikey_Stock tool wins Tier 1, a validation call for the part alone is
\* made through the client, and what process returns is a structured
\* part-detail or table response.
C20_DigikeyStock ==
  (/\ message = "DigiKey stock for LM317"
   /\ Branched
   /\ ~Truthy(mcp_analysis.parameters.manufacturer)) =>
    /\ tier = 1
    /\ mcp_analysis.tool.name = "Digikey_Stock"
    /\ pc = "done" =>
         /\ Len(calls) >= 1
         /\ calls[1].endpoint = "GetValidationPart"
         /\ calls[1].mpn = "LM317"
         /\ ~Truthy(calls[1].man)
         /\ reply.response.type \in {"part_details", "table"}

\* C21: when the extraction LLM and the analysis LLM are absent, raise or
\* answer what does not parse, the entities are those of the deterministic
\* fallback rules, the analysis has the whole message as part number and
\* has_manufacturer only if the message names a manufacturer after " by ",
\* the query is dispatched, and what process returns is not the dict of
\* its except clause.
C21_ExtractionDegrades ==
  /\ Branched => mcp_analysis.parameters = SimpleExtractionFallback(message)
  /\ (tier = 2 /\ pc # "analyze") =>
       /\ analysis.part_number = Upper(Strip(message))
       /\ analysis.has_manufacturer => Truthy(OriginalManufacturer(message))
       /\ Dispatched \/ pc = "done"
  /\ pc = "done" => reply.error = None /\ reply.response # Str(None)

\* The analysis LLM failed on a message that names a manufacturer after
\* " by ": the analysis has no manufacturer and the search was dispatched.
C21_Witness ==
  /\ agent_llm
  /\ tier = 2
  /\ message = "BAV99 by EVVO Semi"
  /\ ~analysis.has_manufacturer
  /\ pc = "done"
  /\ Len(calls) >= 1

\* The score of the catalog tool called name.
ScoreOf(name) == scores[CHOOSE i \in 1..Len(Tools) : Tools[i].name = name]

\* C22: for a query that contains "litigation" or "lawsuit", with the
\* company slot of the litigation tool filled, the score of
\* Company_Litigations includes the bonus of 10, so that it is above the
\* Tier 1 threshold and Tier 1 fires.
C22_LawsuitBonus ==
  (/\ pc = "scored"
   /\ Contains(Lower(message), "litigation") \/ Contains(Lower(message), "lawsuit")
   /\ Truthy(mcp_analysis.parameters.company)) =>
    /\ ScoreOf("Company_Litigations") >= 10 + KeywordScore(Tools[5], Lower(message))
    /\ ScoreOf("Company_Litigations") > Tier1Threshold
    /\ Tier1Fires(mcp_analysis)

\* The query has cross-reference phrasing.
CrossReferencePhrasing ==
  \/ Contains(Lower(message), "cross reference")
  \/ Contains(Lower(message), "alternative")
  \/ Contains(Lower(message), "replacement")

\* C23: for a query with cross-reference phrasing whose entities hold a part
\* number and a manufacturer, Cross_References scores strictly above
\* Part_Search, whatever search keywords the query contains.
C23_CrossReferenceOutranksSearch ==
  (/\ pc = "scored"
   /\ CrossReferencePhrasing
   /\ Truthy(mcp_analysis.parameters.part_number)
   /\ Truthy(mcp_analysis.parameters.manufacturer)) =>
    ScoreOf("Cross_References") > ScoreOf("Part_Search")

\* A query with "replacement" and every keyword of Part_Search was scored
\* with a part number and a manufacturer.
C23_Witness ==
  /\ pc = "scored"
  /\ mcp_analysis.parameters.part_number = "LM317"
  /\ mcp_analysis.parameters.manufacturer = "TI"
  /\ Contains(Lower(message), "replacement")
  /\ ScoreOf("Part_Search") = 8
  /\ ScoreOf("Cross_References") = 12

\* No keyword of any tool occurs in the query.
NoTriggerKeyword == \A i \in 1..Len(Tools) : KeywordScore(Tools[i], Lower(message)) = 0

C25_OnlyCrossReferences ==
  (/\ tier = 2
   /\ pc # "analyze"
   /\ FirstRule = 5
   /\ analysis.has_manufacturer
   /\ Truthy(analysis.part_number)
   /\ Truthy(analysis.manufacturer)) =>
    (Dispatched => /\ frame.api_method = "get_cross_references"
                   /\ mcp_result.tool.name = "Cross_References")

\* The manufacturer rule 8 passes to _search_parts: the manufacturer of the
\* analysis, else its original_manufacturer, else none.
SearchManufacturer ==
  IF analysis.manufacturer \notin {None, ""} THEN analysis.manufacturer
  ELSE IF analysis.original_manufacturer \notin {None, ""} THEN analysis.original_manufacturer
  ELSE None

\* C26 as stated: when rule 8 is selected, the search operation is started
\* with no manufacturer and awaits the single search call, never a
\* validation call.
C26_SearchWithoutManufacturer ==
  (tier = 2 /\ pc # "analyze" /\ FirstRule = 8) =>
    /\ frame.agent_method = "_search_parts"
    /\ pc = "search"
    /\ client.man = None

\* C26: when rule 8 is selected, _search_parts is called with the
\* manufacturer of the analysis or, without one, with its
\* original_manufacturer; only when the analysis has neither does
\* search_parts make the single search call, and otherwise it starts the
\* validate-then-fetch exchange of get_part_details with that manufacturer.
C26_SearchPassesManufacturer ==
  (tier = 2 /\ pc # "analyze" /\ FirstRule = 8) =>
    /\ frame.agent_method = "_search_parts"
    /\ client.method = "search_parts"
    /\ IF SearchManufacturer = None
       THEN pc = "search" /\ client.man = None
       ELSE pc = "validate" /\ client.man = SearchManufacturer

\* Rule 8 was selected for an analysis without manufacturer whose query
\* names one after " by ", and the search awaits a validation call with it.
C26_Witness ==
  /\ tier = 2
  /\ FirstRule = 8
  /\ analysis.manufacturer = None
  /\ analysis.original_manufacturer = "evvo semi"
  /\ pc = "validate"
  /\ client.method = "search_parts"
  /\ client.man = "evvo semi"

\* The number of characters of the message between its first and its last
\* character other than a space, both included.
StrippedLength ==
  LET solid == {i \in 1..Len(message) : SubSeq(message, i, i) # " "}
  IN  IF solid = {} THEN 0
      ELSE (CHOOSE j \in solid : \A k \in solid : k <= j)
           - (CHOOSE i \in solid : \A k \in solid : i <= k) + 1

\* C27: in Tier 2, when the analysis has no intent flag and no part number,
\* a message of at most 20 characters (leading and trailing spaces not
\* counted) goes to _search_parts with no manufacturer, which awaits the
\* single search call, and a longer message is answered at once by the text
\* "Processing data query: <message>" with no API call.
C27_DefaultByLength ==
  (/\ tier = 2
   /\ pc # "analyze"
   /\ analysis.flags = {}
   /\ analysis.part_number \in {None, ""}) =>
     IF StrippedLength <= 20
     THEN /\ frame.agent_method = "_search_parts"
          /\ client.method = "search_parts"
          /\ client.man = None
          /\ pc = "search"
     ELSE /\ pc = "done"
          /\ calls = <<>>
          /\ reply.response = Typed("text", "Processing data query: " \o message)
          /\ reply.success

\* A message of 22 characters, 20 of them between its outer spaces, went to
\* the search with no flag and no part number in the analysis.
C27_Witness ==
  /\ tier = 2
  /\ message = " what parts are there "
  /\ analysis.flags = {}
  /\ analysis.part_number = None
  /\ pc = "search"
  /\ frame.agent_method = "_search_parts"

\* A message of 21 characters got the general answer with no API call.
C27_WitnessLong ==
  /\ tier = 2
  /\ message = "what parts are there?"
  /\ analysis.flags = {}
  /\ analysis.part_number = None
  /\ pc = "done"
  /\ calls = <<>>

\* C27 as stated, the characters of the whole message counted: at most 20
\* go to the search with no manufacturer, 21 or more get the general answer
\* with no API call.
C27_DefaultByRawLength ==
  (/\ tier = 2
   /\ pc # "analyze"
   /\ analysis.flags = {}
   /\ analysis.part_number \in {None, ""}) =>
     IF Len(message) <= 20
     THEN frame.agent_method = "_search_parts" /\ client.man = None /\ pc = "search"
     ELSE pc = "done" /\ calls = <<>>

\* The first validation of _get_part_details found the part and the fetch
\* that followed it failed.
FetchFailedAfterValidation ==
  /\ frame.agent_method = "_get_part_details"
  /\ Len(calls) >= 2
  /\ calls[1].endpoint = "GetValidationPart"
  /\ calls[1].ok
  /\ calls[2].endpoint = "GetPartDetailsBypartID"
  /\ ~calls[2].ok

\* C28: once the first validation of a part-detail lookup has succeeded and
\* its fetch has failed, no further call is issued, whatever the
\* original_manufacturer: the retry is for a failed validation only.
C28_RetryOnlyAfterFailedValidation ==
  [][FetchFailedAfterValidation => calls' = calls]_vars

\* The tool Tier 1 chose names 'company' among its required slots.
RequiresCompany ==
  \E i \in 1..Len(mcp_analysis.tool.requires) : mcp_analysis.tool.requires[i] = "company"

\* C29: the tool Tier 1 dispatches is bound to a method Z2DataClient
\* defines, and the dispatch starts that method: with the company of the
\* extraction or, without one, its manufacturer for a tool that requires a
\* company. No reply says that a slot is missing or that the method does
\* not exist.
C29_AcceptedToolRuns ==
  (tier = 1 /\ Branched) =>
    /\ mcp_analysis.tool.api_method \in ClientMethods
    /\ Dispatched
    /\ (RequiresCompany /\ calls = <<>>) =>
         client.company = Or(mcp_analysis.parameters.company,
                             mcp_analysis.parameters.manufacturer)

\* The calls of the query to a validation endpoint, and those that fetch by
\* the identifier a validation returned.
ValidationCalls == {i \in 1..Len(calls) : calls[i].endpoint \in ValidationEndpoints}

FetchCalls ==
  {i \in 1..Len(calls) :
     calls[i].endpoint \in {FetchEndpoint(k) : k \in PartMethods \cup CompanyMethods}}

\* No query makes more than two validation calls or more than two fetch calls.
CallsBounded == Cardinality(ValidationCalls) <= 2 /\ Cardinality(FetchCalls) <= 2

\* DataAgent.process under the scheduling of the event loop: a coroutine
\* that can run does run, and a call in flight is answered or times out.
LiveSpec == Init /\ [][Next]_vars /\ WF_vars(Next)

\* C30: every call of process ends, it gives its response once (no step
\* follows it and no step is taken after a response is set), and at no
\* point has the query made more than two validation calls or more than two
\* fetch calls.
C30_TerminatesWithinBounds ==
  /\ <>(pc = "done")
  /\ [](pc = "done" => reply # NoReply)
  /\ [][pc # "done" /\ reply = NoReply]_vars
  /\ []CallsBounded

\* process has ended after two validation calls and two fetch calls.
C30_Witness ==
  /\ pc = "done"
  /\ reply # NoReply
  /\ Cardinality(ValidationCalls) = 2
  /\ Cardinality(FetchCalls) = 2

====
